---- MODULE Spec2Model ----
(***************************************************************************)
(* Model of the GPM data plane (ikaganacar1/GPM):                          *)
(*   - the LLM session tracker (gpm-core/src/ollama.rs), the streaming     *)
(*     tee of the Ollama reverse proxy (gpm-core/src/proxy.rs), the        *)
(*     session reaper (gpm-core/src/service.rs) and the llm_sessions       *)
(*     upsert (gpumon-core/src/storage/db.rs)            -- Spec           *)
(*   - the supervisor of gpm-core (service.rs, GpmService::run)            *)
(*                                                       -- SpecGpm        *)
(*   - the supervisor of gpumon-core (GpuMonService::run) -- SpecGpuMon    *)
(*   - the maintenance pass (storage/mod.rs, parquet.rs, db.rs)            *)
(*                                                       -- SpecMaint      *)
(*   - track_generation called by one caller at a time, with the reaper    *)
(*     and the upsert                                    -- SpecSession    *)
(*   - the request handler of the proxy (proxy.rs)       -- SpecProxy      *)
(*   - the three worker loops with their tick bodies in steps              *)
(*                                                       -- SpecLoops      *)
(*   - Database::cleanup_old_data on its own (db.rs)     -- SpecCleanup    *)
(* Every specification runs over the same variables; the variables of the  *)
(* other components stay at their initial value.                           *)
(***************************************************************************)
EXTENDS Integers, Sequences, FiniteSets, TLC

(***************************************************************************)
(* Bounds of the model.                                                    *)
(***************************************************************************)
\* chunks the upstream server sends, over all streaming responses
MaxChunks == 2
\* largest value of the wall clock (chrono::Utc::now)
MaxClock == 1

\* largest value of the clock of the maintenance model
MaxTime == 5
\* clock ticks per calendar day
DayLen == 2
\* GPUs of the machine: samples of one poll tick
MaxGpus == 2
\* process events the classifier returns for one poll tick
MaxProcs == 1
\* sessions a reaper tick reads from the completed buffer
MaxRead == 1

\* config.storage.retention_days
RetentionDays == 1

\* requests the proxy answers
MaxRequests == 2

\* rows of the process_events table
MaxEvents == 2

\* largest memory figure of a line of nvidia-smi, in MiB
MaxMiB == 2

\* headers of a client request
MaxHeaders == 2

\* direct calls of track_generation, over all session ids
MaxCalls == 2

\* calls of track_generation that run at the same time as the reaper
MaxTasks == 2

\* calls of shutdown() by the embedding program
MaxShutdownCalls == 2

\* session ids the proxy allocates (uuid::Uuid::new_v4), one per streaming response
Sessions == {"s1", "s2"}

\* Option::None of the integer-valued optional fields
None == -1

(***************************************************************************)
(* OllamaApiResponse (ollama.rs:23-37): one decoded line of a streaming    *)
(* body.  response is kept as "is it present"; the counters are Option.    *)
(***************************************************************************)
\* ollama.rs:25  the model field of a record: the name the upstream server reports
ChunkModel == "llama2:latest"

ApiResponse(resp, done, ec, ed, pc, pd) ==
    [model |-> ChunkModel,
     response |-> resp, done |-> done, eval_count |-> ec, eval_duration |-> ed,
     prompt_eval_count |-> pc, prompt_eval_duration |-> pd]

\* a first token: response present, cumulative counters, not terminal
RespToken == ApiResponse(TRUE, FALSE, 1, 1, 2, None)
\* a record that carries no response payload and no counters (e.g. /api/chat)
RespBare == ApiResponse(FALSE, FALSE, None, None, None, None)
\* the terminal record of a generation
RespDone == ApiResponse(TRUE, TRUE, 3, 3, 2, 1)

Records == {RespToken, RespBare, RespDone}

\* a terminal record that reports eval_count and another prompt count, no durations
RespDoneNoDur == ApiResponse(TRUE, TRUE, 3, None, 5, None)
\* a terminal record with eval_duration 0 and nothing about the prompt
RespDoneZeroDur == ApiResponse(FALSE, TRUE, 1, 0, None, None)

\* the records of the direct calls of track_generation
CallRecords == Records \cup {RespDoneNoDur, RespDoneZeroDur}

(***************************************************************************)
(* An upstream chunk: bytes that are valid UTF-8 or not, and, when they    *)
(* are, the lines of the text.  A line is blank, undecodable, or decodes   *)
(* to a record.                                                            *)
(***************************************************************************)
JsonLine(r) == [kind |-> "json", rec |-> r]
GarbageLine == [kind |-> "garbage", rec |-> RespBare]
BlankLine == [kind |-> "blank", rec |-> RespBare]

TextChunk(ls) == [utf8 |-> TRUE, lines |-> ls]
BinaryChunk == [utf8 |-> FALSE, lines |-> <<>>]

Chunks ==
    { TextChunk(<<JsonLine(r)>>) : r \in Records }
    \cup { TextChunk(<<BlankLine, GarbageLine>>), BinaryChunk }

VARIABLES
    clock,              \* chrono::Utc::now(), milliseconds
    active_sessions,    \* OllamaMonitor.active_sessions: session id -> SessionTracker
    completed_sessions, \* OllamaMonitor.completed_sessions: Vec<LlmSession>
    tasks,              \* the running track_generation tasks, in spawn order
    received,           \* per streaming response: chunks yielded by response.bytes_stream()
    written,            \* per streaming response: chunks handed to the client body
    closed,             \* streaming responses whose upstream stream has ended
    reaper,             \* position of the session reaper inside its tick
    llm_sessions,       \* the llm_sessions table, in insertion order
    pushed,             \* history: how many sessions were pushed to completed, per id
    stored,             \* history: how many Store upserts succeeded, per id
    applied,            \* history: per id, the records track_generation applied, in order
    fed,                \* history: per id, the records the tee handed to tokio::spawn
    allocated,          \* session ids the proxy has allocated to streaming responses
    pxLast,             \* history: the last request proxy_handler answered
    svMain,             \* position of run() of the supervisor
    svWorker,           \* position of each periodic worker
    svRx,               \* broadcast receivers of shutdown_tx: "none" until subscribed
    svEnabled,          \* config.ollama.enabled
    svCalls,            \* calls of shutdown() made so far
    svSent,             \* history: a shutdown broadcast was sent after run() started
    svTicked,           \* history: the worker has run a tick body
    svBody,             \* position and locals of each worker inside its tick body
    mtClock,            \* chrono::Utc::now() of the maintenance model, in ticks of a day
    gpu_metrics,        \* the gpu_metrics table: the timestamps of its rows
    archive,            \* the parquet files of the archive directory
    mtEnabled,          \* config.storage.enable_parquet_archival
    mt,                 \* position and locals of perform_maintenance
    mtSelected,         \* history: rows the gpu_metrics export query of the pass selects
    mtDeleted,          \* history: rows the pass deleted from gpu_metrics
    process_events,     \* the process_events table: the timestamps of its rows,
                        \* or the rows themselves where the weekly summary reads them
    weekly_summaries,   \* the weekly_summaries table: the week_start of its rows,
                        \* or the rows themselves where the weekly summary writes them
    request_body,       \* per streaming response: the body of the request it answers
    call,               \* a call of a function: its arguments and what it returned
    offered,            \* history of the lock model: sessions passed to the upsert, per id
    recorded,           \* history of the lock model: sessions recorded to telemetry, per id
    locks,              \* the two RwLocks of OllamaMonitor: the guards alive and the waiters
    process_count,      \* PrometheusExporter.process_count: category label -> gauge value
    classified_processes \* history: what the classifier returned in the last poll tick

pxVars == <<applied, fed, allocated, pxLast>>

trackerVars == <<clock, active_sessions, completed_sessions, tasks, received, written,
                 closed, reaper, llm_sessions, pushed, stored, pxVars>>

svVars == <<svMain, svWorker, svRx, svEnabled, svCalls, svSent, svTicked, svBody>>

dbVars == <<process_events, weekly_summaries>>

mtVars == <<mtClock, gpu_metrics, archive, mtEnabled, mt, mtSelected, mtDeleted, dbVars>>

fnVars == <<request_body, call>>

obVars == <<offered, recorded, locks, process_count, classified_processes>>

vars == <<clock, active_sessions, completed_sessions, tasks, received, written,
          closed, reaper, llm_sessions, pushed, stored,
          applied, fed, allocated, pxLast,
          svMain, svWorker, svRx, svEnabled, svCalls, svSent, svTicked, svBody,
          mtClock, gpu_metrics, archive, mtEnabled, mt, mtSelected, mtDeleted,
          process_events, weekly_summaries, request_body, call,
          offered, recorded, locks, process_count, classified_processes>>

(***************************************************************************)
(* proxy.rs:206-221  parse_streaming_chunk: the first line that is not     *)
(* blank and decodes; None when the bytes are not UTF-8 or no line decodes.*)
(***************************************************************************)
NoRecord == [some |-> FALSE, rec |-> RespBare]

RECURSIVE FirstDecodable(_)
FirstDecodable(ls) ==
    IF ls = <<>> THEN NoRecord
    ELSE IF Head(ls).kind = "json" THEN [some |-> TRUE, rec |-> Head(ls).rec]
    ELSE FirstDecodable(Tail(ls))

parse_streaming_chunk(bytes) ==
    IF ~bytes.utf8 THEN NoRecord ELSE FirstDecodable(bytes.lines)

(***************************************************************************)
(* A request body (proxy.rs:89): no bytes, bytes that are not a JSON       *)
(* document, or a JSON object given by its members in the order they are   *)
(* written.  A member value is a string, a number or null.                 *)
(***************************************************************************)
JsonString(s) == [type |-> "string", s |-> s]
JsonNumber == [type |-> "number", s |-> ""]
JsonNull == [type |-> "null", s |-> ""]
Member(key, value) == [key |-> key, value |-> value]

EmptyBody == [kind |-> "empty", members |-> <<>>]
GarbageBody == [kind |-> "garbage", members |-> <<>>]
JsonObject(members) == [kind |-> "object", members |-> members]

\* proxy.rs:229  {"model": "llama2", "prompt": "hello"}
Llama2Body == JsonObject(<<Member("model", JsonString("llama2")),
                           Member("prompt", JsonString("hello"))>>)

Bodies ==
    { EmptyBody, GarbageBody, JsonObject(<<>>), Llama2Body,
      JsonObject(<<Member("prompt", JsonString("hello"))>>),
      JsonObject(<<Member("prompt", JsonString("hello")),
                   Member("model", JsonString("mistral"))>>),
      JsonObject(<<Member("model", JsonNull)>>),
      JsonObject(<<Member("model", JsonNumber)>>),
      JsonObject(<<Member("model", JsonString("llama2")),
                   Member("model", JsonString("llama2"))>>) }

\* Option<String>
NoneString == [some |-> FALSE, s |-> ""]
SomeString(s) == [some |-> TRUE, s |-> s]

(***************************************************************************)
(* proxy.rs:195-200  serde_json::from_slice::<RequestBody>: the derived    *)
(* Deserialize of struct RequestBody { model: Option<String> } reads the   *)
(* members in order, skips the keys it does not know, fails on a second    *)
(* "model" and on a "model" that is neither a string nor null, and leaves  *)
(* a missing Option field None.                                            *)
(***************************************************************************)
DeserializeError == [ok |-> FALSE, model |-> NoneString]

RECURSIVE visit_map(_, _, _)
visit_map(members, seen, model) ==
    IF members = <<>> THEN [ok |-> TRUE, model |-> model]
    ELSE LET m == Head(members)
         IN IF m.key # "model" THEN visit_map(Tail(members), seen, model)
            ELSE IF seen THEN DeserializeError
            ELSE IF m.value.type = "string"
                 THEN visit_map(Tail(members), TRUE, SomeString(m.value.s))
            ELSE IF m.value.type = "null"
                 THEN visit_map(Tail(members), TRUE, NoneString)
            ELSE DeserializeError

from_slice(body) ==
    IF body.kind = "object" THEN visit_map(body.members, FALSE, NoneString)
    ELSE DeserializeError

\* proxy.rs:190-204  extract_model_from_request
extract_model_from_request(body) ==
    IF body.kind = "empty" THEN "unknown"
    ELSE LET r == from_slice(body)
         IN IF r.ok /\ r.model.some THEN r.model.s ELSE "unknown"

\* a session that is tracked under the default whatever the request says
RequestModel_default(sid) == "unknown"

\* proxy.rs:130  let model = extract_model_from_request(&body_bytes);
RequestModel(sid) == extract_model_from_request(request_body[sid])

\* the bodies of the two requests of the tracker model: S6 of the tests and an empty body
DefaultBodies == [s \in Sessions |-> IF s = "s1" THEN Llama2Body ELSE EmptyBody]

\* no call has been made
NoCall == [op |-> "none"]

(***************************************************************************)
(* ollama.rs:131-142  the SessionTracker created by or_insert_with.        *)
(***************************************************************************)
NewTracker(sid, model, now) ==
    [session_id |-> sid, model |-> model, start_time |-> now, first_token_time |-> None,
     prompt_tokens |-> 0, completion_tokens |-> 0,
     prompt_eval_duration_ns |-> 0, eval_duration_ns |-> 0]

\* field updates that add the reported counts to the partial
ApplyResponse_accumulate(tracker, response, now) ==
    [tracker EXCEPT
        !.first_token_time =
            IF tracker.first_token_time = None /\ response.response THEN now ELSE @,
        !.prompt_tokens =
            IF response.prompt_eval_count # None THEN @ + response.prompt_eval_count ELSE @,
        !.completion_tokens =
            IF response.eval_count # None THEN @ + response.eval_count ELSE @,
        !.prompt_eval_duration_ns =
            IF response.prompt_eval_duration # None THEN response.prompt_eval_duration ELSE @,
        !.eval_duration_ns =
            IF response.eval_duration # None THEN response.eval_duration ELSE @]

\* ollama.rs:144-162: the field updates of track_generation on the entry
ApplyResponse(tracker, response, now) ==
    [tracker EXCEPT
        !.first_token_time =
            IF tracker.first_token_time = None /\ response.response THEN now ELSE @,
        !.prompt_tokens =
            IF response.prompt_eval_count # None THEN response.prompt_eval_count ELSE @,
        !.completion_tokens =
            IF response.eval_count # None THEN response.eval_count ELSE @,
        !.prompt_eval_duration_ns =
            IF response.prompt_eval_duration # None THEN response.prompt_eval_duration ELSE @,
        !.eval_duration_ns =
            IF response.eval_duration # None THEN response.eval_duration ELSE @]

(***************************************************************************)
(* ollama.rs:192  (t - start_time).num_milliseconds() as u64: the cast of  *)
(* a negative i64 wraps.  TLC integers are 32 bits wide, so the model      *)
(* wraps at 2^30, which lies above every clock value as 2^64 does.         *)
(***************************************************************************)
U64Wrap == 2^30
AsU64(d) == IF d >= 0 THEN d ELSE U64Wrap + d

\* an f64 quotient num * scale / den, kept exact; Zero is 0.0
Quotient(num, den) == [num |-> num, den |-> den]
Zero == [num |-> 0, den |-> 1]

(***************************************************************************)
(* ollama.rs:181-213  finalize_session; end_time is the clock read at      *)
(* line 182.  tokens_per_second stands for num * 1e9 / den and             *)
(* time_per_output_token_ms for num / 1e6 / den.                           *)
(***************************************************************************)
\* a total that counts the generated tokens only
TotalTokens_completiononly(tracker) == tracker.completion_tokens

\* ollama.rs:183  let total_tokens = tracker.prompt_tokens + tracker.completion_tokens;
TotalTokens(tracker) == tracker.prompt_tokens + tracker.completion_tokens

finalize_session(tracker, end_time) ==
    [id |-> tracker.session_id,
     start_time |-> tracker.start_time,
     end_time |-> end_time,
     model |-> tracker.model,
     prompt_tokens |-> tracker.prompt_tokens,
     completion_tokens |-> tracker.completion_tokens,
     total_tokens |-> TotalTokens(tracker),
     tokens_per_second |->
        IF tracker.eval_duration_ns > 0
        THEN Quotient(tracker.completion_tokens, tracker.eval_duration_ns) ELSE Zero,
     time_to_first_token_ms |->
        IF tracker.first_token_time # None
        THEN AsU64(tracker.first_token_time - tracker.start_time) ELSE None,
     time_per_output_token_ms |->
        IF tracker.completion_tokens > 0 /\ tracker.eval_duration_ns > 0
        THEN Quotient(tracker.eval_duration_ns, tracker.completion_tokens) ELSE Zero,
     has_time_per_output_token |->
        tracker.completion_tokens > 0 /\ tracker.eval_duration_ns > 0]

(***************************************************************************)
(* db.rs:75-105  INSERT ... ON CONFLICT(id) DO UPDATE SET the six          *)
(* finalization columns.                                                   *)
(***************************************************************************)
RowsWithId(table, id) == {i \in 1..Len(table) : table[i].id = id}

\* an update clause that also takes the prompt count of the new session
upsert_row_withprompt(old, session) ==
    [old EXCEPT
        !.end_time = session.end_time,
        !.prompt_tokens = session.prompt_tokens,
        !.completion_tokens = session.completion_tokens,
        !.total_tokens = session.total_tokens,
        !.tokens_per_second = session.tokens_per_second,
        !.time_to_first_token_ms = session.time_to_first_token_ms,
        !.time_per_output_token_ms = session.time_per_output_token_ms,
        !.has_time_per_output_token = session.has_time_per_output_token]

upsert_row(old, session) ==
    [old EXCEPT
        !.end_time = session.end_time,
        !.completion_tokens = session.completion_tokens,
        !.total_tokens = session.total_tokens,
        !.tokens_per_second = session.tokens_per_second,
        !.time_to_first_token_ms = session.time_to_first_token_ms,
        !.time_per_output_token_ms = session.time_per_output_token_ms,
        !.has_time_per_output_token = session.has_time_per_output_token]

\* the insert without its ON CONFLICT clause
insert_llm_session_noconflict(table, session) == Append(table, session)

insert_llm_session(table, session) ==
    IF RowsWithId(table, session.id) # {}
    THEN [i \in 1..Len(table) |->
            IF table[i].id = session.id THEN upsert_row(table[i], session) ELSE table[i]]
    ELSE Append(table, session)

(***************************************************************************)
(* The session tracker, the proxy tee and the session reaper.              *)
(***************************************************************************)
\* no request answered yet
NoRequest ==
    [seq |-> 0, path |-> "", body_ok |-> TRUE, status |-> 0, outcome |-> 0, session_id |-> ""]

NoSession == finalize_session(NewTracker("", "", 0), 0)

RECURSIVE SumLen(_, _)
SumLen(f, S) ==
    IF S = {} THEN 0
    ELSE LET x == CHOOSE y \in S : TRUE IN Len(f[x]) + SumLen(f, S \ {x})

TotalChunks == SumLen(received, Sessions)

InitTracker ==
    /\ clock = 0
    /\ active_sessions = <<>>
    /\ completed_sessions = <<>>
    /\ tasks = <<>>
    /\ received = [s \in Sessions |-> <<>>]
    /\ written = [s \in Sessions |-> <<>>]
    /\ closed = {}
    /\ reaper = [pc |-> "idle", sessions |-> <<>>]
    /\ llm_sessions = <<>>
    /\ pushed = [s \in Sessions |-> 0]
    /\ stored = [s \in Sessions |-> 0]
    /\ applied = [s \in Sessions |-> <<>>]
    /\ fed = [s \in Sessions |-> <<>>]
    /\ allocated = Sessions
    /\ pxLast = NoRequest

\* the wall clock advances
ClockTick ==
    /\ clock < MaxClock
    /\ clock' = clock + 1
    /\ UNCHANGED <<active_sessions, completed_sessions, tasks, received, written,
                   closed, reaper, llm_sessions, pushed, stored>>
    /\ UNCHANGED <<pxVars, svVars, mtVars, fnVars, obVars>>

\* proxy.rs:144-146  tokio::spawn of track_generation(sid, mdl, &api_response)
SpawnTrack(ts, sid, parsed) ==
    IF parsed.some
    THEN Append(ts, [sid |-> sid, response |-> parsed.rec, pc |-> "now",
                     now |-> None, session |-> NoSession])
    ELSE ts

\* proxy.rs:140-147  the records handed to tokio::spawn, in order
Spawned(recs, parsed) == IF parsed.some THEN Append(recs, parsed.rec) ELSE recs

\* a tee that forwards only what it could decode
ForwardChunk_decodedonly(out, bytes) ==
    IF parse_streaming_chunk(bytes).some THEN Append(out, bytes) ELSE out

\* proxy.rs:153  chunk_result.map(|b| Bytes::from(b.to_vec()))
ForwardChunk(out, bytes) == Append(out, bytes)

(***************************************************************************)
(* proxy.rs:137-154  the closure of stream.map on an Ok chunk: the tee     *)
(* spawns the tracker task and the chunk is returned to the client body.   *)
(***************************************************************************)
proxy_handler_chunk(sid, bytes) ==
    /\ sid \in allocated
    /\ sid \notin closed
    /\ TotalChunks < MaxChunks
    /\ received' = [received EXCEPT ![sid] = Append(@, bytes)]
    /\ tasks' = SpawnTrack(tasks, sid, parse_streaming_chunk(bytes))
    /\ written' = [written EXCEPT ![sid] = ForwardChunk(@, bytes)]
    /\ fed' = [fed EXCEPT ![sid] = Spawned(@, parse_streaming_chunk(bytes))]
    /\ UNCHANGED <<clock, active_sessions, completed_sessions, closed, reaper,
                   llm_sessions, pushed, stored>>
    /\ UNCHANGED <<applied, allocated, pxLast, svVars, mtVars, fnVars, obVars>>

\* proxy.rs:149-151 and the end of bytes_stream(): the upstream stream is over
proxy_handler_end(sid) ==
    /\ sid \in allocated
    /\ sid \notin closed
    /\ closed' = closed \cup {sid}
    /\ UNCHANGED <<clock, active_sessions, completed_sessions, tasks, received, written,
                   reaper, llm_sessions, pushed, stored>>
    /\ UNCHANGED <<pxVars, svVars, mtVars, fnVars, obVars>>

\* a test that takes every record for the last of its generation
IsTerminal_any(response) == TRUE

\* ollama.rs:164  if response.done
IsTerminal(response) == response.done

\* ollama.rs:128  let now = chrono::Utc::now();
track_generation_now(i) ==
    /\ tasks[i].pc = "now"
    /\ tasks' = [tasks EXCEPT ![i].now = clock, ![i].pc = "lock"]
    /\ UNCHANGED <<clock, active_sessions, completed_sessions, received, written,
                   closed, reaper, llm_sessions, pushed, stored>>
    /\ UNCHANGED <<pxVars, svVars, mtVars, fnVars, obVars>>

\* a task that has returned leaves the runtime
Finished(ts, i) == SubSeq(ts, 1, i - 1) \o SubSeq(ts, i + 1, Len(ts))

\* ollama.rs:164-167  what the done branch leaves of the partial map
AfterFinalize(sessions, sid) == sessions

\* an update of the map that keeps the entry of the session alone
SetEntry_alone(sessions, sid, tracker) == [k \in {sid} |-> tracker]

SetEntry(sessions, sid, tracker) ==
    [k \in DOMAIN sessions \cup {sid} |-> IF k = sid THEN tracker ELSE sessions[k]]

(***************************************************************************)
(* ollama.rs:129-167  the critical section under active_sessions.write().  *)
(***************************************************************************)
track_generation_update(i) ==
    /\ tasks[i].pc = "lock"
    /\ LET sid == tasks[i].sid
           response == tasks[i].response
           now == tasks[i].now
           entry == IF sid \in DOMAIN active_sessions THEN active_sessions[sid]
                    ELSE NewTracker(sid, RequestModel(sid), now)
           tracker == ApplyResponse(entry, response, now)
       IN IF IsTerminal(response)
          THEN /\ active_sessions' = AfterFinalize(SetEntry(active_sessions, sid, tracker), sid)
               /\ tasks' = [tasks EXCEPT ![i].pc = "push",
                                         ![i].session = finalize_session(tracker, clock)]
          ELSE /\ active_sessions' = SetEntry(active_sessions, sid, tracker)
               /\ tasks' = Finished(tasks, i)
    /\ UNCHANGED <<clock, completed_sessions, received, written, closed, reaper,
                   llm_sessions, pushed, stored>>
    /\ UNCHANGED <<pxVars, svVars, mtVars, fnVars, obVars>>

\* ollama.rs:169-170  completed_sessions.write().await.push(session)
track_generation_push(i) ==
    /\ tasks[i].pc = "push"
    /\ completed_sessions' = Append(completed_sessions, tasks[i].session)
    /\ pushed' = [pushed EXCEPT ![tasks[i].sid] = @ + 1]
    /\ tasks' = Finished(tasks, i)
    /\ UNCHANGED <<clock, active_sessions, received, written, closed, reaper, llm_sessions, stored>>
    /\ UNCHANGED <<pxVars, svVars, mtVars, fnVars, obVars>>

(***************************************************************************)
(* service.rs:262-267  a reaper tick: health check, then the clone of the  *)
(* completed buffer (ollama.rs:215-217).                                   *)
(***************************************************************************)
ollama_monitor_loop_tick ==
    /\ reaper.pc = "idle"
    /\ reaper' = [pc |-> IF completed_sessions = <<>> THEN "clear" ELSE "insert",
                  sessions |-> completed_sessions]
    /\ UNCHANGED <<clock, active_sessions, completed_sessions, tasks, received, written,
                   closed, llm_sessions, pushed, stored>>
    /\ UNCHANGED <<pxVars, svVars, mtVars, fnVars, obVars>>

\* service.rs:268-280  one iteration of the for loop; the Store write may fail
ollama_monitor_loop_insert(ok) ==
    /\ reaper.pc = "insert"
    /\ llm_sessions' = IF ok THEN insert_llm_session(llm_sessions, Head(reaper.sessions))
                       ELSE llm_sessions
    /\ reaper' = [pc |-> IF Len(reaper.sessions) = 1 THEN "clear" ELSE "insert",
                  sessions |-> Tail(reaper.sessions)]
    /\ stored' = IF ok THEN [stored EXCEPT ![Head(reaper.sessions).id] = @ + 1] ELSE stored
    /\ UNCHANGED <<clock, active_sessions, completed_sessions, tasks, received, written,
                   closed, pushed>>
    /\ UNCHANGED <<pxVars, svVars, mtVars, fnVars, obVars>>

\* service.rs:281 and ollama.rs:219-221  clear_completed_sessions
ollama_monitor_loop_clear ==
    /\ reaper.pc = "clear"
    /\ completed_sessions' = <<>>
    /\ reaper' = [pc |-> "idle", sessions |-> <<>>]
    /\ UNCHANGED <<clock, active_sessions, tasks, received, written, closed,
                   llm_sessions, pushed, stored>>
    /\ UNCHANGED <<pxVars, svVars, mtVars, fnVars, obVars>>

NextTracker ==
    \/ ClockTick
    \/ \E sid \in Sessions, bytes \in Chunks : proxy_handler_chunk(sid, bytes)
    \/ \E sid \in Sessions : proxy_handler_end(sid)
    \/ \E i \in DOMAIN tasks : track_generation_now(i)
    \/ \E i \in DOMAIN tasks : track_generation_update(i)
    \/ \E i \in DOMAIN tasks : track_generation_push(i)
    \/ ollama_monitor_loop_tick
    \/ \E ok \in BOOLEAN : ollama_monitor_loop_insert(ok)
    \/ ollama_monitor_loop_clear

(***************************************************************************)
(* proxy.rs:73-188  proxy_handler up to the response it returns.  status   *)
(* is the upstream status, 0 when request_builder.send() failed.           *)
(***************************************************************************)
Paths == {"/api/generate", "/api/chat", "/api/tags"}
Statuses == {0, 200, 299, 300, 500}

\* chunks of a streaming body, some with several lines
ProxyChunks ==
    { TextChunk(<<JsonLine(RespToken), JsonLine(RespDone)>>),
      TextChunk(<<GarbageLine, JsonLine(RespDone)>>),
      BinaryChunk }

\* a test that takes every path under /api/ for a streaming endpoint
is_streaming_endpoint_anyapi(path) == path \in {"/api/generate", "/api/chat", "/api/tags"}

\* proxy.rs:86
is_streaming_endpoint(path) == path = "/api/generate" \/ path = "/api/chat"

\* http::StatusCode::is_success
is_success(status) == 200 <= status /\ status < 300

BAD_REQUEST == 400
BAD_GATEWAY == 502

proxy_handler(path, body_ok, status, read_ok) ==
    /\ pxLast.seq < MaxRequests
    /\ LET request == [seq |-> pxLast.seq + 1, path |-> path, body_ok |-> body_ok,
                       status |-> status, outcome |-> 0, session_id |-> ""]
       IN IF ~body_ok
          THEN /\ pxLast' = [request EXCEPT !.outcome = BAD_REQUEST]
               /\ allocated' = allocated
          ELSE IF status = 0
          THEN /\ pxLast' = [request EXCEPT !.outcome = BAD_GATEWAY]
               /\ allocated' = allocated
          ELSE IF is_streaming_endpoint(path) /\ is_success(status)
          THEN \E session_id \in Sessions \ allocated :
                  /\ pxLast' = [request EXCEPT !.outcome = status, !.session_id = session_id]
                  /\ allocated' = allocated \cup {session_id}
          ELSE /\ pxLast' = [request EXCEPT !.outcome = IF read_ok THEN status ELSE BAD_GATEWAY]
               /\ allocated' = allocated
    /\ UNCHANGED <<clock, active_sessions, completed_sessions, tasks, received, written,
                   closed, reaper, llm_sessions, pushed, stored>>
    /\ UNCHANGED <<applied, fed, svVars, mtVars, fnVars, obVars>>

NextProxy ==
    \/ \E path \in Paths, body_ok \in BOOLEAN, status \in Statuses, read_ok \in BOOLEAN :
            proxy_handler(path, body_ok, status, read_ok)
    \/ \E sid \in Sessions, bytes \in ProxyChunks : proxy_handler_chunk(sid, bytes)
    \/ \E sid \in Sessions : proxy_handler_end(sid)
    \/ \E i \in DOMAIN tasks : track_generation_now(i)
    \/ \E i \in DOMAIN tasks : track_generation_update(i)
    \/ \E i \in DOMAIN tasks : track_generation_push(i)

(***************************************************************************)
(* ollama.rs:122-179  track_generation called and awaited by one caller,   *)
(* as test_session_tracking does: the whole call is one step.              *)
(***************************************************************************)
TotalApplied == SumLen(applied, Sessions)

track_generation(sid, response) ==
    /\ TotalApplied < MaxCalls
    /\ LET now == clock
           entry == IF sid \in DOMAIN active_sessions THEN active_sessions[sid]
                    ELSE NewTracker(sid, RequestModel(sid), now)
           tracker == ApplyResponse(entry, response, now)
       IN IF IsTerminal(response)
          THEN /\ active_sessions' = AfterFinalize(SetEntry(active_sessions, sid, tracker), sid)
               /\ completed_sessions' =
                      Append(completed_sessions, finalize_session(tracker, clock))
               /\ pushed' = [pushed EXCEPT ![sid] = @ + 1]
          ELSE /\ active_sessions' = SetEntry(active_sessions, sid, tracker)
               /\ UNCHANGED <<completed_sessions, pushed>>
    /\ applied' = [applied EXCEPT ![sid] = Append(@, response)]
    /\ UNCHANGED <<clock, tasks, received, written, closed, reaper, llm_sessions, stored>>
    /\ UNCHANGED <<fed, allocated, pxLast, svVars, mtVars, fnVars, obVars>>

NextSession ==
    \/ ClockTick
    \/ \E sid \in Sessions, response \in CallRecords : track_generation(sid, response)
    \/ ollama_monitor_loop_tick
    \/ \E ok \in BOOLEAN : ollama_monitor_loop_insert(ok)
    \/ ollama_monitor_loop_clear

(***************************************************************************)
(* The supervisor: run(), the three periodic workers and the shutdown      *)
(* broadcast (tokio::sync::broadcast, capacity 1).                         *)
(***************************************************************************)
Workers == {"metrics", "ollama", "maintenance"}
Receivers == Workers \cup {"main"}

\* the locals of a tick body: the items it works on (GPU samples, or the
\* sessions read from the completed buffer), the writes that succeeded and failed,
\* what went to telemetry, and the process events of the classifier
IdleBody ==
    [pc |-> "idle", n |-> 0, i |-> 0, written |-> {}, failed |-> {}, fanned |-> {},
     classified |-> FALSE, events |-> 0, ev_written |-> 0, ev_failed |-> FALSE,
     cleared |-> FALSE, result |-> "none", late |-> FALSE, faulted |-> FALSE]

InitSupervisor ==
    /\ svMain = "idle"
    /\ svWorker = [w \in Workers |-> "unspawned"]
    /\ svRx = [r \in Receivers |-> "none"]
    /\ svEnabled = TRUE
    /\ svCalls = 0
    /\ svSent = FALSE
    /\ svTicked = [w \in Workers |-> FALSE]
    /\ svBody = [w \in Workers |-> IdleBody]

\* broadcast::Sender::send: every receiver subscribed at this moment gets the value
Broadcast(rx) == [r \in Receivers |-> IF rx[r] = "none" THEN "none" ELSE "msg"]

\* broadcast::Sender::subscribe: a new receiver sees only later sends
Subscribe(rx, r) == [rx EXCEPT ![r] = "empty"]

\* service.rs:323-325 (gpm-core), service.rs:234-236 (gpumon-core)  shutdown()
shutdown ==
    /\ svCalls < MaxShutdownCalls
    /\ svCalls' = svCalls + 1
    /\ svRx' = Broadcast(svRx)
    /\ svSent' = (svSent \/ svMain # "idle")
    /\ UNCHANGED <<svMain, svWorker, svEnabled, svTicked>>
    /\ UNCHANGED <<svBody, trackerVars, mtVars, fnVars, obVars>>

\* service.rs:97-104 / 67-74  select!: the shutdown receiver of run() has a value
run_select_recv ==
    /\ svMain = "select"
    /\ svRx["main"] = "msg"
    /\ svRx' = [svRx EXCEPT !["main"] = "empty"]
    /\ svMain' = "send"
    /\ UNCHANGED <<svWorker, svEnabled, svCalls, svSent, svTicked>>
    /\ UNCHANGED <<svBody, trackerVars, mtVars, fnVars, obVars>>

\* service.rs:101-103 / 71-73  select!: tokio::signal::ctrl_c() completes
run_select_ctrl_c ==
    /\ svMain = "select"
    /\ svMain' = "send"
    /\ UNCHANGED <<svWorker, svRx, svEnabled, svCalls, svSent, svTicked>>
    /\ UNCHANGED <<svBody, trackerVars, mtVars, fnVars, obVars>>

\* service.rs:106 / 76  let _ = self.shutdown_tx.send(());
run_send ==
    /\ svMain = "send"
    /\ svRx' = Broadcast(svRx)
    /\ svSent' = TRUE
    /\ svMain' = "join"
    /\ UNCHANGED <<svWorker, svEnabled, svCalls, svTicked>>
    /\ UNCHANGED <<svBody, trackerVars, mtVars, fnVars, obVars>>

\* a join that waits for the metrics collector only
JoinDone_metricsonly(workers) == workers["metrics"] = "exited"

\* the join of the three worker tasks is complete
JoinDone(workers) == \A w \in Workers : workers[w] = "exited"

\* service.rs:108-111 / 78-81  join!/try_join! completes and run() returns
run_join ==
    /\ svMain = "join"
    /\ JoinDone(svWorker)
    /\ svMain' = "returned"
    /\ UNCHANGED <<svWorker, svRx, svEnabled, svCalls, svSent, svTicked>>
    /\ UNCHANGED <<svBody, trackerVars, mtVars, fnVars, obVars>>

(***************************************************************************)
(* The body of a worker loop; the three loops have the same shape.         *)
(* gpm-core service.rs:114-145, 245-291, 293-321;                          *)
(* gpumon-core service.rs:84-110, 161-204, 206-232.                        *)
(***************************************************************************)
\* the code before the loop: the ollama worker returns when disabled, the
\* others create their interval and subscribe to the broadcast
worker_start(w) ==
    /\ svWorker[w] = "spawned"
    /\ IF w = "ollama" /\ ~svEnabled
       THEN /\ svWorker' = [svWorker EXCEPT ![w] = "exited"]
            /\ svRx' = svRx
       ELSE /\ svWorker' = [svWorker EXCEPT ![w] = "select"]
            /\ svRx' = Subscribe(svRx, w)
    /\ UNCHANGED <<svMain, svEnabled, svCalls, svSent, svTicked>>
    /\ UNCHANGED <<svBody, trackerVars, mtVars, fnVars, obVars>>

\* select!: interval.tick() completes and the tick body starts
worker_tick(w) ==
    /\ svWorker[w] = "select"
    /\ svWorker' = [svWorker EXCEPT ![w] = "tick"]
    /\ UNCHANGED <<svMain, svRx, svEnabled, svCalls, svSent, svTicked>>
    /\ UNCHANGED <<svBody, trackerVars, mtVars, fnVars, obVars>>

\* the tick body has run to its end; errors are logged, the loop goes on
worker_tick_done(w) ==
    /\ svWorker[w] = "tick"
    /\ svWorker' = [svWorker EXCEPT ![w] = "select"]
    /\ svTicked' = [svTicked EXCEPT ![w] = TRUE]
    /\ UNCHANGED <<svMain, svRx, svEnabled, svCalls, svSent>>
    /\ UNCHANGED <<svBody, trackerVars, mtVars, fnVars, obVars>>

\* a shutdown branch that wins over a tick body in progress
worker_recv_midtick(w) ==
    /\ svWorker[w] \in {"select", "tick"}
    /\ svRx[w] = "msg"
    /\ svWorker' = [svWorker EXCEPT ![w] = "exited"]
    /\ svRx' = [svRx EXCEPT ![w] = "none"]
    /\ UNCHANGED <<svMain, svEnabled, svCalls, svSent, svTicked>>
    /\ UNCHANGED <<svBody, trackerVars, mtVars, fnVars, obVars>>

\* select!: shutdown_rx.recv() completes, the loop breaks and the worker returns
worker_recv(w) ==
    /\ svWorker[w] = "select"
    /\ svRx[w] = "msg"
    /\ svWorker' = [svWorker EXCEPT ![w] = "exited"]
    /\ svRx' = [svRx EXCEPT ![w] = "none"]
    /\ UNCHANGED <<svMain, svEnabled, svCalls, svSent, svTicked>>
    /\ UNCHANGED <<svBody, trackerVars, mtVars, fnVars, obVars>>

(***************************************************************************)
(* gpm-core service.rs:58-95  GpmService::run up to the select!: subscribe *)
(* and tokio::spawn of the three loops, which start running on their own.  *)
(***************************************************************************)
GpmService_run ==
    /\ svMain = "idle"
    /\ svRx' = Subscribe(svRx, "main")
    /\ svWorker' = [w \in Workers |-> "spawned"]
    /\ svMain' = "select"
    /\ UNCHANGED <<svEnabled, svCalls, svSent, svTicked>>
    /\ UNCHANGED <<svBody, trackerVars, mtVars, fnVars, obVars>>

(***************************************************************************)
(* gpumon-core service.rs:58-65  GpuMonService::run up to the select!:     *)
(* subscribe and the calls of the three async fns, whose futures are first *)
(* polled by try_join! at line 78.                                         *)
(***************************************************************************)
GpuMonService_run ==
    /\ svMain = "idle"
    /\ svRx' = Subscribe(svRx, "main")
    /\ svWorker' = [w \in Workers |-> "created"]
    /\ svMain' = "select"
    /\ UNCHANGED <<svEnabled, svCalls, svSent, svTicked>>
    /\ UNCHANGED <<svBody, trackerVars, mtVars, fnVars, obVars>>

\* gpumon-core service.rs:78  try_join! polls a worker future for the first time
GpuMonService_poll(w) ==
    /\ svMain = "join"
    /\ svWorker[w] = "created"
    /\ svWorker' = [svWorker EXCEPT ![w] = "spawned"]
    /\ UNCHANGED <<svMain, svRx, svEnabled, svCalls, svSent, svTicked>>
    /\ UNCHANGED <<svBody, trackerVars, mtVars, fnVars, obVars>>

NextGpm ==
    \/ GpmService_run
    \/ shutdown
    \/ run_select_recv
    \/ run_select_ctrl_c
    \/ run_send
    \/ run_join
    \/ \E w \in Workers : worker_start(w)
    \/ \E w \in Workers : worker_tick(w)
    \/ \E w \in Workers : worker_tick_done(w)
    \/ \E w \in Workers : worker_recv(w)

NextGpuMon ==
    \/ GpuMonService_run
    \/ shutdown
    \/ run_select_recv
    \/ run_select_ctrl_c
    \/ run_send
    \/ run_join
    \/ \E w \in Workers : GpuMonService_poll(w)
    \/ \E w \in Workers : worker_start(w)
    \/ \E w \in Workers : worker_tick(w)
    \/ \E w \in Workers : worker_tick_done(w)
    \/ \E w \in Workers : worker_recv(w)

\* the runtime runs every ready task, the timers fire, and a select! whose
\* shutdown branch is ready again and again takes it; nobody has to call
\* shutdown() or press Ctrl+C
WorkerFairness ==
    \A w \in Workers :
        /\ WF_vars(worker_start(w))
        /\ WF_vars(worker_tick(w))
        /\ WF_vars(worker_tick_done(w))
        /\ SF_vars(worker_recv(w))

RunFairness ==
    /\ WF_vars(run_select_recv)
    /\ WF_vars(run_send)
    /\ WF_vars(run_join)

(***************************************************************************)
(* The three worker loops with their tick bodies in steps (gpm-core        *)
(* service.rs:125-142, 260-288, 301-320).  A shutdown may arrive between   *)
(* any two steps.                                                          *)
(***************************************************************************)
FirstStep(w) ==
    IF w = "metrics" THEN "collect" ELSE IF w = "ollama" THEN "health" ELSE "maintain"

\* select!: interval.tick() completes and the tick body starts
loop_tick(w) ==
    /\ svWorker[w] = "select"
    /\ svWorker' = [svWorker EXCEPT ![w] = "tick"]
    /\ svBody' = [svBody EXCEPT ![w] = [IdleBody EXCEPT !.pc = FirstStep(w),
                                                      !.faulted = svBody[w].faulted]]
    /\ UNCHANGED <<svMain, svRx, svEnabled, svCalls, svSent, svTicked>>
    /\ UNCHANGED <<trackerVars, mtVars, fnVars, obVars>>

\* a step of the body of w that leads to the body b; it notes whether the
\* shutdown value was already waiting in the receiver of w
BodyStep(w, b) ==
    /\ svWorker[w] = "tick"
    /\ svBody' = [svBody EXCEPT ![w] = [b EXCEPT !.late = @ \/ svRx[w] = "msg"]]
    /\ UNCHANGED <<svMain, svWorker, svRx, svEnabled, svCalls, svSent, svTicked>>
    /\ UNCHANGED <<trackerVars, mtVars, fnVars, obVars>>

\* a Result<()> propagated by the ? operator ends the body
Propagate(b) == [b EXCEPT !.pc = "end", !.result = "err", !.faulted = TRUE]

\* service.rs:202-205  monitor.collect_metrics()?
collect_metrics(ok, n) ==
    LET b == svBody["metrics"]
    IN /\ b.pc = "collect"
       /\ BodyStep("metrics", IF ok THEN [b EXCEPT !.pc = "store", !.n = n, !.i = 1]
                               ELSE Propagate(b))

\* service.rs:207-217  one iteration of for metrics in &gpu_metrics
store_sample(ok) ==
    LET b == svBody["metrics"]
    IN /\ b.pc = "store"
       /\ BodyStep("metrics",
                   IF ok
                   THEN [b EXCEPT !.written = @ \cup {b.i}, !.fanned = @ \cup {b.i},
                                  !.i = @ + 1,
                                  !.pc = IF b.i = b.n THEN "classify" ELSE "store"]
                   ELSE Propagate([b EXCEPT !.failed = @ \cup {b.i}]))

\* service.rs:219-222  clf.classify_gpu_processes(&gpu_metrics)
classify_gpu_processes(m) ==
    LET b == svBody["metrics"]
    IN /\ b.pc = "classify"
       /\ BodyStep("metrics", [b EXCEPT !.classified = TRUE, !.events = m,
                                         !.pc = IF m = 0 THEN "end" ELSE "events",
                                         !.result = IF m = 0 THEN "ok" ELSE @])

\* service.rs:224-242  one iteration of for process in &classified_processes,
\* and past the loop the telemetry of the processes and Ok(())
store_event(ok) ==
    LET b == svBody["metrics"]
        last == b.ev_written + 1 = b.events
    IN /\ b.pc = "events"
       /\ BodyStep("metrics",
                   IF ok
                   THEN [b EXCEPT !.ev_written = @ + 1,
                                  !.pc = IF last THEN "end" ELSE "events",
                                  !.result = IF last THEN "ok" ELSE @]
                   ELSE Propagate([b EXCEPT !.ev_failed = TRUE]))

\* service.rs:263-265  check_and_track_logs: an error is logged at warn
check_and_track_logs(ok) ==
    LET b == svBody["ollama"]
    IN /\ b.pc = "health"
       /\ BodyStep("ollama", [b EXCEPT !.pc = "read", !.faulted = @ \/ ~ok])

\* service.rs:267  let sessions = ollama_monitor.get_completed_sessions().await
get_completed_sessions(n) ==
    LET b == svBody["ollama"]
    IN /\ b.pc = "read"
       /\ BodyStep("ollama", [b EXCEPT !.n = n, !.i = 1,
                                        !.pc = IF n = 0 THEN "clear" ELSE "upsert"])

\* service.rs:268-280  one iteration of for session in sessions
store_session(ok) ==
    LET b == svBody["ollama"]
    IN /\ b.pc = "upsert"
       /\ BodyStep("ollama",
                   [b EXCEPT !.written = IF ok THEN @ \cup {b.i} ELSE @,
                             !.failed = IF ok THEN @ ELSE @ \cup {b.i},
                             !.faulted = @ \/ ~ok,
                             !.fanned = @ \cup {b.i},
                             !.i = @ + 1,
                             !.pc = IF b.i = b.n THEN "clear" ELSE "upsert"])

\* service.rs:281  ollama_monitor.clear_completed_sessions().await
clear_completed_sessions ==
    LET b == svBody["ollama"]
    IN /\ b.pc = "clear"
       /\ BodyStep("ollama", [b EXCEPT !.cleared = TRUE, !.pc = "end", !.result = "ok"])

\* service.rs:304-306  storage.perform_maintenance(&config): an error is logged
maintenance_pass(ok) ==
    LET b == svBody["maintenance"]
    IN /\ b.pc = "maintain"
       /\ BodyStep("maintenance", [b EXCEPT !.pc = "summary", !.faulted = @ \/ ~ok])

\* service.rs:308-311  compute_weekly_summary(current_week): an error is logged
compute_weekly_summary(ok) ==
    LET b == svBody["maintenance"]
    IN /\ b.pc = "summary"
       /\ BodyStep("maintenance", [b EXCEPT !.pc = "end", !.result = "ok",
                                             !.faulted = @ \/ ~ok])

\* a loop that returns the error of its tick body
AfterTick_propagate(result) == IF result = "err" THEN "exited" ELSE "select"

\* service.rs:127-136  if let Err(e) = ... { error!(...) }: the loop goes on
AfterTick(result) == "select"

\* the tick branch of select! is over and the loop comes back to select!
loop_done(w) ==
    /\ svWorker[w] = "tick"
    /\ svBody[w].pc = "end"
    /\ svWorker' = [svWorker EXCEPT ![w] = AfterTick(svBody[w].result)]
    /\ svBody' = [svBody EXCEPT ![w] = [IdleBody EXCEPT !.faulted = svBody[w].faulted]]
    /\ svTicked' = [svTicked EXCEPT ![w] = TRUE]
    /\ UNCHANGED <<svMain, svRx, svEnabled, svCalls, svSent>>
    /\ UNCHANGED <<trackerVars, mtVars, fnVars, obVars>>

NextLoops ==
    \/ run_select_ctrl_c
    \/ run_send
    \/ run_join
    \/ \E w \in Workers : loop_tick(w)
    \/ \E ok \in BOOLEAN, n \in 1..MaxGpus : collect_metrics(ok, n)
    \/ \E ok \in BOOLEAN : store_sample(ok)
    \/ \E m \in 0..MaxProcs : classify_gpu_processes(m)
    \/ \E ok \in BOOLEAN : store_event(ok)
    \/ \E ok \in BOOLEAN : check_and_track_logs(ok)
    \/ \E n \in 0..MaxRead : get_completed_sessions(n)
    \/ \E ok \in BOOLEAN : store_session(ok)
    \/ clear_completed_sessions
    \/ \E ok \in BOOLEAN : maintenance_pass(ok)
    \/ \E ok \in BOOLEAN : compute_weekly_summary(ok)
    \/ \E w \in Workers : loop_done(w)
    \/ \E w \in Workers : worker_recv(w)

(***************************************************************************)
(* The maintenance pass: StorageManager::perform_maintenance               *)
(* (gpm-core storage/mod.rs), ParquetArchiver (storage/parquet.rs) and     *)
(* Database::cleanup_old_data (storage/db.rs).  A row of gpu_metrics is    *)
(* its timestamp.                                                          *)
(***************************************************************************)
Tables == <<"gpu_metrics", "process_events", "llm_sessions">>

\* SQLite DATE(timestamp) and chrono date_naive(): the calendar day of an instant
DateOf(t) == t \div DayLen

\* chrono::Utc::now() - chrono::Duration::days(retention_days)
CutoffInstant(now) == now - RetentionDays * DayLen

\* parquet.rs:24-27  WHERE DATE(timestamp) < '<cutoff_date>'
ExportPredicate(ts, cutoff_date) == DateOf(ts) < cutoff_date

\* db.rs:228  DELETE FROM gpu_metrics WHERE timestamp < ?
DeletePredicate(ts, cutoff) == ts < cutoff

\* parquet.rs:91-100  read_from_sqlite: a one-row placeholder frame, whatever
\* the database and the query are
read_from_sqlite(db, query) == <<0>>

\* parquet.rs:75-77  <table>_<date>.parquet
ParquetFile(table, date) == [table |-> table, date |-> date]

MtIdle == [pc |-> "idle", cutoff_date |-> 0, counts |-> <<0, 0, 0>>, result |-> "none"]

InitMaintenance ==
    /\ mtClock = 0
    /\ gpu_metrics = {}
    /\ archive = {}
    /\ mtEnabled = TRUE
    /\ mt = MtIdle
    /\ mtSelected = {}
    /\ mtDeleted = {}
    /\ process_events = {}
    /\ weekly_summaries = {}

MaintClockTick ==
    /\ mtClock < MaxTime
    /\ mtClock' = mtClock + 1
    /\ UNCHANGED <<gpu_metrics, archive, mtEnabled, mt, mtSelected, mtDeleted>>
    /\ UNCHANGED <<dbVars, trackerVars, svVars, fnVars, obVars>>

\* db.rs:51-73  insert_gpu_metrics of a sample collected now
insert_gpu_metrics ==
    /\ gpu_metrics' = gpu_metrics \cup {mtClock}
    /\ UNCHANGED <<mtClock, archive, mtEnabled, mt, mtSelected, mtDeleted>>
    /\ UNCHANGED <<dbVars, trackerVars, svVars, fnVars, obVars>>

\* storage/mod.rs:36-46  the pass starts: disabled archival returns Ok at once
perform_maintenance ==
    /\ mt.pc = "idle"
    /\ IF ~mtEnabled
       THEN mt' = [MtIdle EXCEPT !.result = "disabled"]
       ELSE mt' = [pc |-> "archive", cutoff_date |-> DateOf(CutoffInstant(mtClock)),
                   counts |-> <<>>, result |-> "none"]
    /\ mtSelected' = {}
    /\ mtDeleted' = {}
    /\ UNCHANGED <<mtClock, gpu_metrics, archive, mtEnabled>>
    /\ UNCHANGED <<dbVars, trackerVars, svVars, fnVars, obVars>>

\* an export whose error is noted and counted as no rows, the pass going on
ExportError_logged(m) ==
    [m EXCEPT !.counts = Append(@, 0), !.result = "err",
              !.pc = IF Len(m.counts) + 1 = Len(Tables) THEN "cleanup" ELSE "archive"]

\* storage/mod.rs:48-61  .await? on an export: the error is the result of the pass
ExportError(m) == [m EXCEPT !.pc = "idle", !.result = "err"]

(***************************************************************************)
(* storage/mod.rs:48-61 and parquet.rs:19-89  the next of the three        *)
(* exports: archive_table writes the frame when it has rows and returns    *)
(* its height; an I/O error of write_parquet ends the pass.                *)
(***************************************************************************)
archive_table(io_ok) ==
    /\ mt.pc = "archive"
    /\ LET table == Tables[Len(mt.counts) + 1]
           df == read_from_sqlite(gpu_metrics, table)
           done == Len(mt.counts) + 1 = Len(Tables)
       IN /\ IF Len(df) = 0
             THEN /\ archive' = archive
                  /\ mt' = [mt EXCEPT !.counts = Append(@, 0),
                                      !.pc = IF done THEN "cleanup" ELSE "archive"]
             ELSE IF io_ok
             THEN /\ archive' = archive \cup {ParquetFile(table, mt.cutoff_date)}
                  /\ mt' = [mt EXCEPT !.counts = Append(@, Len(df)),
                                      !.pc = IF done THEN "cleanup" ELSE "archive"]
             ELSE /\ archive' = archive
                  /\ mt' = ExportError(mt)
          /\ mtSelected' =
                IF table = "gpu_metrics"
                THEN {ts \in gpu_metrics : ExportPredicate(ts, mt.cutoff_date)}
                ELSE mtSelected
    /\ UNCHANGED <<mtClock, gpu_metrics, mtEnabled, mtDeleted>>
    /\ UNCHANGED <<dbVars, trackerVars, svVars, fnVars, obVars>>

\* db.rs:225-240  the rows cleanup_old_data leaves, with its own reading of the clock
cleanup_old_data(rows, now) == {ts \in rows : ~DeletePredicate(ts, CutoffInstant(now))}

\* storage/mod.rs:63-72  if gpu_count + process_count + llm_count > 0 { cleanup }
perform_maintenance_cleanup(db_ok) ==
    /\ mt.pc = "cleanup"
    /\ IF mt.counts[1] + mt.counts[2] + mt.counts[3] > 0
       THEN IF db_ok
            THEN /\ gpu_metrics' = cleanup_old_data(gpu_metrics, mtClock)
                 /\ mtDeleted' = gpu_metrics \ cleanup_old_data(gpu_metrics, mtClock)
                 /\ mt' = [mt EXCEPT !.pc = "size"]
            ELSE /\ UNCHANGED <<gpu_metrics, mtDeleted>>
                 /\ mt' = [mt EXCEPT !.pc = "idle", !.result = "err"]
       ELSE /\ UNCHANGED <<gpu_metrics, mtDeleted>>
            /\ mt' = [mt EXCEPT !.pc = "size"]
    /\ UNCHANGED <<mtClock, archive, mtEnabled, mtSelected>>
    /\ UNCHANGED <<dbVars, trackerVars, svVars, fnVars, obVars>>

\* storage/mod.rs:74-77  get_archive_size_bytes()? and Ok(())
perform_maintenance_size(io_ok) ==
    /\ mt.pc = "size"
    /\ mt' = [mt EXCEPT !.pc = "idle", !.result = IF io_ok THEN "ok" ELSE "err"]
    /\ UNCHANGED <<mtClock, gpu_metrics, archive, mtEnabled, mtSelected, mtDeleted>>
    /\ UNCHANGED <<dbVars, trackerVars, svVars, fnVars, obVars>>

\* a DELETE that goes over every table of the database
CleanupAffects_everytable(table) == TRUE

\* db.rs:228  DELETE FROM gpu_metrics
CleanupAffects(table) == table = "gpu_metrics"

\* the rows of a table after cleanup_old_data
AfterCleanup(table, rows, now) ==
    IF CleanupAffects(table) THEN cleanup_old_data(rows, now) ELSE rows

\* a row of llm_sessions with the given start_time
StoredSession(start_time) ==
    finalize_session(NewTracker(IF start_time = 0 THEN "s1" ELSE "s2", "llama2", start_time),
                     start_time)

\* db.rs:225-240  Database::cleanup_old_data(retention_days) called on its own
Database_cleanup_old_data(db_ok) ==
    /\ mt.pc = "idle"
    /\ IF db_ok
       THEN /\ gpu_metrics' = AfterCleanup("gpu_metrics", gpu_metrics, mtClock)
            /\ process_events' = AfterCleanup("process_events", process_events, mtClock)
            /\ weekly_summaries' = AfterCleanup("weekly_summaries", weekly_summaries, mtClock)
            /\ llm_sessions' =
                  IF CleanupAffects("llm_sessions")
                  THEN SelectSeq(llm_sessions,
                                 LAMBDA r : ~DeletePredicate(r.start_time, CutoffInstant(mtClock)))
                  ELSE llm_sessions
            /\ mtDeleted' = gpu_metrics \ AfterCleanup("gpu_metrics", gpu_metrics, mtClock)
       ELSE UNCHANGED <<gpu_metrics, process_events, weekly_summaries, llm_sessions, mtDeleted>>
    /\ UNCHANGED <<mtClock, archive, mtEnabled, mt, mtSelected>>
    /\ UNCHANGED <<clock, active_sessions, completed_sessions, tasks, received, written,
                   closed, reaper, pushed, stored, pxVars, svVars, fnVars, obVars>>

NextCleanup ==
    \/ MaintClockTick
    \/ \E db_ok \in BOOLEAN : Database_cleanup_old_data(db_ok)

NextMaint ==
    \/ MaintClockTick
    \/ insert_gpu_metrics
    \/ perform_maintenance
    \/ \E io_ok \in BOOLEAN : archive_table(io_ok)
    \/ \E db_ok \in BOOLEAN : perform_maintenance_cleanup(db_ok)
    \/ \E io_ok \in BOOLEAN : perform_maintenance_size(io_ok)

InitFunctions ==
    /\ request_body = DefaultBodies
    /\ call = NoCall

\* the names of the two locks
LockNames == {"active_sessions", "completed_sessions"}

\* ollama.rs:66-67  RwLock::new: nobody holds a guard and nobody waits
NoGuards == [l \in LockNames |-> [holders |-> {}, queue |-> <<>>]]

\* ollama.rs:59-69  OllamaMonitor::new, and a reaper that has not run yet
InitOllamaMonitor ==
    /\ offered = [s \in Sessions |-> 0]
    /\ recorded = [s \in Sessions |-> 0]
    /\ locks = NoGuards

\* prometheus.rs:80-83  GaugeVec::new: no label value has a child yet
InitExporter ==
    /\ process_count = <<>>
    /\ classified_processes = <<>>

Init ==
    /\ InitTracker /\ InitSupervisor /\ InitMaintenance /\ InitFunctions
    /\ InitOllamaMonitor /\ InitExporter

\* the supervisor under either value of config.ollama.enabled
InitConfigured ==
    /\ InitOllamaMonitor
    /\ InitExporter
    /\ InitFunctions
    /\ InitTracker
    /\ InitMaintenance
    /\ svMain = "idle"
    /\ svWorker = [w \in Workers |-> "unspawned"]
    /\ svRx = [r \in Receivers |-> "none"]
    /\ svEnabled \in BOOLEAN
    /\ svCalls = 0
    /\ svSent = FALSE
    /\ svTicked = [w \in Workers |-> FALSE]
    /\ svBody = [w \in Workers |-> IdleBody]

\* run() waits in its select! and the three workers have subscribed and wait in theirs
InitLoops ==
    /\ InitOllamaMonitor
    /\ InitExporter
    /\ InitFunctions
    /\ InitTracker
    /\ InitMaintenance
    /\ svMain = "select"
    /\ svWorker = [w \in Workers |-> "select"]
    /\ svRx = [r \in Receivers |-> "empty"]
    /\ svEnabled = TRUE
    /\ svCalls = 0
    /\ svSent = FALSE
    /\ svTicked = [w \in Workers |-> FALSE]
    /\ svBody = [w \in Workers |-> IdleBody]

\* the maintenance pass under either value of enable_parquet_archival
InitMaint ==
    /\ InitOllamaMonitor
    /\ InitExporter
    /\ InitFunctions
    /\ InitTracker
    /\ InitSupervisor
    /\ mtClock = 0
    /\ gpu_metrics = {}
    /\ archive = {}
    /\ mtEnabled \in BOOLEAN
    /\ mt = MtIdle
    /\ mtSelected = {}
    /\ mtDeleted = {}
    /\ process_events = {}
    /\ weekly_summaries = {}

\* the proxy before its first request
InitProxy ==
    /\ InitOllamaMonitor
    /\ InitExporter
    /\ InitFunctions
    /\ InitSupervisor
    /\ InitMaintenance
    /\ clock = 0
    /\ active_sessions = <<>>
    /\ completed_sessions = <<>>
    /\ tasks = <<>>
    /\ received = [s \in Sessions |-> <<>>]
    /\ written = [s \in Sessions |-> <<>>]
    /\ closed = {}
    /\ reaper = [pc |-> "idle", sessions |-> <<>>]
    /\ llm_sessions = <<>>
    /\ pushed = [s \in Sessions |-> 0]
    /\ stored = [s \in Sessions |-> 0]
    /\ applied = [s \in Sessions |-> <<>>]
    /\ fed = [s \in Sessions |-> <<>>]
    /\ allocated = {}
    /\ pxLast = NoRequest

\* a database that holds rows of any age in its four tables
InitCleanup ==
    /\ InitOllamaMonitor
    /\ InitExporter
    /\ InitFunctions
    /\ InitSupervisor
    /\ clock = 0
    /\ active_sessions = <<>>
    /\ completed_sessions = <<>>
    /\ tasks = <<>>
    /\ received = [s \in Sessions |-> <<>>]
    /\ written = [s \in Sessions |-> <<>>]
    /\ closed = {}
    /\ reaper = [pc |-> "idle", sessions |-> <<>>]
    /\ llm_sessions \in {<<>>, <<StoredSession(0)>>, <<StoredSession(0), StoredSession(MaxTime)>>}
    /\ pushed = [s \in Sessions |-> 0]
    /\ stored = [s \in Sessions |-> 0]
    /\ applied = [s \in Sessions |-> <<>>]
    /\ fed = [s \in Sessions |-> <<>>]
    /\ allocated = Sessions
    /\ pxLast = NoRequest
    /\ mtClock = 0
    /\ gpu_metrics \in SUBSET (0..MaxTime)
    /\ archive = {}
    /\ mtEnabled = TRUE
    /\ mt = MtIdle
    /\ mtSelected = {}
    /\ mtDeleted = {}
    /\ process_events \in SUBSET {0, MaxTime}
    /\ weekly_summaries \in SUBSET {0}

Next == NextTracker

Spec == Init /\ [][Next]_vars

SpecSession == Init /\ [][NextSession]_vars

SpecLoops == InitLoops /\ [][NextLoops]_vars

SpecGpm == InitConfigured /\ [][NextGpm]_vars

SpecGpmFair ==
    /\ InitConfigured /\ [][NextGpm]_vars
    /\ WF_vars(GpmService_run) /\ RunFairness /\ WorkerFairness

SpecGpuMon == InitConfigured /\ [][NextGpuMon]_vars

SpecProxy == InitProxy /\ [][NextProxy]_vars

SpecCleanup == InitCleanup /\ [][NextCleanup]_vars

SpecMaint == InitMaint /\ [][NextMaint]_vars

SpecGpuMonFair ==
    /\ InitConfigured /\ [][NextGpuMon]_vars
    /\ WF_vars(GpuMonService_run) /\ RunFairness /\ WorkerFairness
    /\ \A w \in Workers : WF_vars(GpuMonService_poll(w))

(***************************************************************************)
(* Properties of the session tracker, the proxy tee and the reaper (Spec). *)
(***************************************************************************)
InFlightSessions == {tasks[i].session : i \in {j \in DOMAIN tasks : tasks[j].pc = "push"}}
EmittedSessions ==
    {completed_sessions[i] : i \in DOMAIN completed_sessions} \cup InFlightSessions

RowCount(id) == Cardinality(RowsWithId(llm_sessions, id))

\* C1: the completed buffer receives at most one session per session id, whatever
\* chunks are tracked after the first done=true chunk of that id.
FinalizedExactlyOnce == \A s \in Sessions : pushed[s] <= 1

\* C2: the llm_sessions table never holds two rows of one session id; once the
\* reaper has upserted a session of the id it holds exactly one, also when the
\* sessions of two done=true chunks of that id were upserted.
OneStoredSessionPerId ==
    \A s \in Sessions : RowCount(s) = (IF stored[s] = 0 THEN 0 ELSE 1)

\* two done=true chunks of s1 were finalized and both sessions went through the
\* upsert, over reaper ticks that have drained the buffer
TwoDoneChunksStored ==
    /\ pushed["s1"] = 2
    /\ stored["s1"] = 2
    /\ reaper.pc = "idle"
    /\ completed_sessions = <<>>
    /\ RowCount("s1") = 1

\* C3: the chunks written to the client are the chunks received from upstream, in
\* order and unmodified, decodable or not; and the tee can take the next chunk
\* whatever the tracker tasks are doing.
TeeIsTransparent ==
    /\ \A s \in Sessions : written[s] = received[s]
    /\ \A s \in Sessions :
        (s \notin closed /\ TotalChunks < MaxChunks)
            => \A bytes \in Chunks : ENABLED proxy_handler_chunk(s, bytes)

\* an undecodable chunk was delivered behind a decodable one whose tracker task
\* has not run yet
UndecodableDeliveredWhileTrackerPending ==
    /\ Len(written["s1"]) = 2
    /\ parse_streaming_chunk(written["s1"][1]).some
    /\ ~parse_streaming_chunk(written["s1"][2]).some
    /\ \E i \in DOMAIN tasks : tasks[i].sid = "s1" /\ tasks[i].pc = "now"

\* C4: every emitted session with ttft_ms present has
\* start_time + ttft_ms <= end_time (the finalization time).
TtftWithinSession ==
    \A s \in EmittedSessions :
        s.time_to_first_token_ms # None
            => s.start_time + s.time_to_first_token_ms <= s.end_time

(***************************************************************************)
(* Properties of the request handler of the proxy (SpecProxy).             *)
(***************************************************************************)
TrackerState == <<active_sessions, completed_sessions, tasks, fed>>

\* C14: a request allocates a session id if and only if its path is /api/generate
\* or /api/chat and the upstream status is 2xx; no request changes the tracker
\* state by itself, and only allocated ids ever reach the tracker.
SessionIffStreaming ==
    /\ [][pxLast' # pxLast =>
            /\ (allocated' # allocated)
                  <=> (/\ pxLast'.path \in {"/api/generate", "/api/chat"}
                       /\ pxLast'.body_ok
                       /\ pxLast'.status \in 200..299)
            /\ (allocated' # allocated) <=> pxLast'.session_id \in allocated' \ allocated
            /\ (allocated' = allocated) => pxLast'.session_id = ""
            /\ TrackerState' = TrackerState]_vars
    /\ [](\A sid \in Sessions :
            (fed[sid] # <<>> \/ sid \in DOMAIN active_sessions) => sid \in allocated)

\* a streaming request got the session id s1 and its chunk reached the tracker;
\* the next request, /api/generate answered 500 by upstream, got none
StreamTrackedThenPlainRequest ==
    /\ pxLast.seq = 2 /\ pxLast.path = "/api/generate" /\ pxLast.status = 500
    /\ pxLast.session_id = ""
    /\ allocated = {"s1"}
    /\ "s1" \in DOMAIN active_sessions

\* the records of the lines of the chunks cs that decode, in order
RECURSIVE DecodableLines(_)
DecodableLines(ls) ==
    IF ls = <<>> THEN <<>>
    ELSE (IF Head(ls).kind = "json" THEN <<Head(ls).rec>> ELSE <<>>) \o DecodableLines(Tail(ls))

RECURSIVE DecodableRecords(_)
DecodableRecords(cs) ==
    IF cs = <<>> THEN <<>>
    ELSE (IF Head(cs).utf8 THEN DecodableLines(Head(cs).lines) ELSE <<>>)
            \o DecodableRecords(Tail(cs))

\* C15: every line of every received chunk that decodes as a record has been
\* handed to track_generation, one task per line, in order.
EveryDecodableLineFed ==
    \A sid \in Sessions : fed[sid] = DecodableRecords(received[sid])

(***************************************************************************)
(* Properties of finalization and of the upsert (SpecSession).             *)
(***************************************************************************)
CompletedSessions == {completed_sessions[i] : i \in DOMAIN completed_sessions}

\* C11: every session in the completed buffer has
\* total_tokens = prompt_tokens + completion_tokens, whatever records were
\* applied, also records that carry no counter.
TotalIsPromptPlusCompletion ==
    \A s \in CompletedSessions : s.total_tokens = s.prompt_tokens + s.completion_tokens

\* a session was finalized by a terminal record that omits the prompt count,
\* after a record that carried it
FinalizedByRecordWithoutPromptCount ==
    /\ applied["s1"] = <<RespToken, RespDoneZeroDur>>
    /\ \E s \in CompletedSessions :
          s.id = "s1" /\ s.prompt_tokens = 2 /\ s.completion_tokens = 1 /\ s.total_tokens = 3

\* C12: every session in the completed buffer with completion_tokens > 0 has
\* tokens_per_second > 0.
ThroughputPositive ==
    \A s \in CompletedSessions : s.completion_tokens > 0 => s.tokens_per_second.num > 0

\* the value of a counter after the records recs: that of the last record that
\* carries it, the initial 0 when none does
RECURSIVE LastCarried(_, _)
LastCarried(recs, field) ==
    IF recs = <<>> THEN 0
    ELSE IF recs[Len(recs)][field] # None THEN recs[Len(recs)][field]
    ELSE LastCarried(SubSeq(recs, 1, Len(recs) - 1), field)

\* C13: after any sequence of calls, prompt_tokens, completion_tokens,
\* prompt_eval_duration_ns and eval_duration_ns of a partial are the values of the
\* most recently applied record that carried the field (0 when none did); a
\* record that omits a field leaves it as it was.
CountersOverwritten ==
    \A sid \in DOMAIN active_sessions :
        /\ active_sessions[sid].prompt_tokens = LastCarried(applied[sid], "prompt_eval_count")
        /\ active_sessions[sid].completion_tokens = LastCarried(applied[sid], "eval_count")
        /\ active_sessions[sid].prompt_eval_duration_ns
              = LastCarried(applied[sid], "prompt_eval_duration")
        /\ active_sessions[sid].eval_duration_ns = LastCarried(applied[sid], "eval_duration")

\* records with eval_count 1 then 3 were applied and the session was finalized
\* with completion_tokens = 3
FinalizedWithLastEvalCount ==
    /\ applied["s1"] = <<RespToken, RespDone>>
    /\ \E s \in CompletedSessions : s.id = "s1" /\ s.completion_tokens = 3

Row(table, id) == table[CHOOSE i \in RowsWithId(table, id) : TRUE]

\* C19: an upsert of a session whose id has a row keeps one row for the id, sets
\* end_time, completion_tokens, total_tokens, tokens_per_second,
\* time_to_first_token_ms and time_per_output_token_ms to the values of the new
\* session and leaves start_time, model and prompt_tokens as they were.
UpsertUpdatesFinalizationColumns ==
    [][(reaper.pc = "insert" /\ stored' # stored
            /\ RowsWithId(llm_sessions, Head(reaper.sessions).id) # {})
        => LET session == Head(reaper.sessions)
               old == Row(llm_sessions, session.id)
               new == Row(llm_sessions', session.id)
           IN /\ Cardinality(RowsWithId(llm_sessions', session.id)) = 1
              /\ Len(llm_sessions') = Len(llm_sessions)
              /\ new.start_time = old.start_time
              /\ new.model = old.model
              /\ new.prompt_tokens = old.prompt_tokens
              /\ new.end_time = session.end_time
              /\ new.completion_tokens = session.completion_tokens
              /\ new.total_tokens = session.total_tokens
              /\ new.tokens_per_second = session.tokens_per_second
              /\ new.time_to_first_token_ms = session.time_to_first_token_ms
              /\ new.time_per_output_token_ms = session.time_per_output_token_ms
              /\ new.has_time_per_output_token = session.has_time_per_output_token]_vars

\* the row of s1 was written by a first insert with prompt_tokens 2 and updated
\* by a session with prompt_tokens 5, a later end_time and total_tokens 8
ConflictingSessionUpserted ==
    /\ stored["s1"] = 2
    /\ RowCount("s1") = 1
    /\ Row(llm_sessions, "s1").prompt_tokens = 2
    /\ Row(llm_sessions, "s1").total_tokens = 8
    /\ Row(llm_sessions, "s1").start_time = 0
    /\ Row(llm_sessions, "s1").end_time = 1

(***************************************************************************)
(* Properties of the supervisors (SpecGpm, SpecGpuMon).                    *)
(***************************************************************************)
Running(w) == svWorker[w] \in {"spawned", "select", "tick"}

\* C5: run() of gpm-core has returned only when the metrics collector, the
\* session reaper and the maintenance worker have all terminated.
RunReturnsAfterWorkers ==
    svMain = "returned" => \A w \in Workers : ~Running(w) /\ svWorker[w] = "exited"

\* run() has returned after workers that ran tick bodies and saw the broadcast
ReturnedAfterTicks ==
    /\ svMain = "returned"
    /\ svTicked["metrics"] /\ svTicked["maintenance"]
    /\ svEnabled /\ svTicked["ollama"]

\* C6: once the shutdown broadcast has been sent after run() of gpm-core started,
\* every worker exits and run() returns.
GpmShutdownReturns == svSent ~> (svMain = "returned")

\* C7: once the shutdown broadcast has been sent, the three workers of
\* gpumon-core exit their loops and run() returns.
GpuMonShutdownReturns == svSent ~> (svMain = "returned" /\ JoinDone(svWorker))

\* C8: while run() of gpumon-core waits for the shutdown signal its metrics
\* collector runs poll ticks: unless run() leaves the wait, a tick happens.
GpuMonPollsWhileWaiting ==
    (svMain = "select") ~> (svTicked["metrics"] \/ svMain # "select")

(***************************************************************************)
(* Properties of the worker loops and their tick bodies (SpecLoops).       *)
(***************************************************************************)
\* C16: when a Store write of a sample or of a process event fails during a
\* poll tick, the body still writes every other sample, passes what it wrote to
\* telemetry, runs the classifier and writes every other process event.
StoreFailureDropsOneWrite ==
    LET b == svBody["metrics"]
    IN (svWorker["metrics"] = "tick" /\ b.pc = "end" /\ (b.failed # {} \/ b.ev_failed))
        => /\ (1..b.n) \ b.failed \subseteq b.written
           /\ b.written \subseteq b.fanned
           /\ b.classified
           /\ b.ev_failed => b.ev_written = b.events - 1

InLoop(state) == state \in {"select", "tick"}

\* C17: a worker leaves its loop only from its select!, with the shutdown value
\* in its receiver; a tick body, also one in which GPU collection, a Store
\* write, the health check or the maintenance pass failed, ends back at the
\* select!, from where the next tick runs.
WorkerLeavesOnlyOnShutdown ==
    [][\A w \in Workers :
          /\ (InLoop(svWorker[w]) /\ ~InLoop(svWorker'[w]))
                => (svWorker[w] = "select" /\ svRx[w] = "msg" /\ svWorker'[w] = "exited")
          /\ (svWorker[w] = "tick" /\ svBody[w].pc = "end" /\ svWorker'[w] # "tick")
                => svWorker'[w] = "select"]_vars

\* every worker has started a tick body after a body of its own in which a
\* step failed
TickRunsAfterFailedTick ==
    \A w \in Workers :
        svWorker[w] = "tick" /\ svBody[w].pc = FirstStep(w) /\ svBody[w].faulted

\* the tick body of w is at its end: the reaper has gone through every session
\* it read and cleared the buffer; the collector has written every sample and
\* every process event, unless a Store error ended the body
BodyComplete(w) ==
    LET b == svBody[w]
    IN /\ b.pc = "end"
       /\ w = "ollama" => (b.written \cup b.failed = 1..b.n /\ b.cleared)
       /\ w = "metrics" =>
            \/ b.result = "err"
            \/ (b.written = 1..b.n /\ b.classified /\ b.ev_written = b.events)

\* C18: a worker leaves a tick body only at the end of the body and towards its
\* select!, whether or not the shutdown value waits in its receiver; it exits
\* from the select! only.
TickBodyRunsToCompletion ==
    [][\A w \in Workers :
          (svWorker[w] = "tick" /\ svWorker'[w] # "tick")
              => (svWorker'[w] = "select" /\ BodyComplete(w))]_vars

\* with the shutdown value waiting in their receivers, the collector has written
\* both samples of its tick and the reaper has upserted the session it read and
\* cleared the buffer
BodiesCompletedUnderShutdown ==
    /\ svWorker["metrics"] = "tick" /\ svRx["metrics"] = "msg"
    /\ svBody["metrics"].late /\ svBody["metrics"].pc = "end"
    /\ svBody["metrics"].written = {1, 2}
    /\ svWorker["ollama"] = "tick" /\ svRx["ollama"] = "msg"
    /\ svBody["ollama"].late /\ svBody["ollama"].pc = "end"
    /\ svBody["ollama"].written = {1} /\ svBody["ollama"].cleared

(***************************************************************************)
(* Properties of the maintenance pass (SpecMaint).                         *)
(***************************************************************************)
PassOver == mt.pc = "idle" /\ mt.result \in {"ok", "err"}

NoRowBefore(cutoff_date) == \A ts \in gpu_metrics : ~(DateOf(ts) < cutoff_date)

ArchiveWritten(table) == ParquetFile(table, mt.cutoff_date) \in archive

\* the three exports of the pass ran to their end and returned a row in total
ExportReturnedRows ==
    Len(mt.counts) = 3 /\ mt.counts[1] + mt.counts[2] + mt.counts[3] >= 1

\* C9: after a pass with cutoff D that found gpu_metrics rows before D, no such
\* row remains if and only if the archive file of the pass was written and its
\* export returned at least one row; and rows are deleted only when the export
\* selected a row of the store.
ArchiveCleanupAtomic ==
    /\ (PassOver /\ mtSelected # {})
        => (NoRowBefore(mt.cutoff_date)
              <=> (ExportReturnedRows /\ ArchiveWritten("gpu_metrics")))
    /\ mtDeleted # {} => mtSelected # {}

\* C10: every gpu_metrics row a pass deletes was selected by the gpu_metrics
\* export predicate of the same pass.
DeletedWithinExported == mtDeleted \subseteq mtSelected

\* C20: cleanup_old_data leaves process_events, llm_sessions and weekly_summaries
\* as they are, and keeps every gpu_metrics row with
\* timestamp >= now - retention_days.
CleanupDeletesOldGpuMetricsOnly ==
    [][/\ process_events' = process_events
       /\ llm_sessions' = llm_sessions
       /\ weekly_summaries' = weekly_summaries
       /\ \A ts \in gpu_metrics :
            ts >= CutoffInstant(mtClock) => ts \in gpu_metrics']_vars

\* a cleanup at MaxTime has deleted the gpu_metrics row of instant 0 and kept the
\* row at the cutoff, in a database whose other tables hold rows of instant 0
OldRowsOfOtherTablesSurvive ==
    /\ mtClock = MaxTime
    /\ 0 \in mtDeleted
    /\ CutoffInstant(MaxTime) \in gpu_metrics
    /\ 0 \in process_events
    /\ 0 \in weekly_summaries
    /\ Len(llm_sessions) = 2 /\ llm_sessions[1].start_time = 0

(***************************************************************************)
(* The model a session is tracked under: the requests of the two streaming *)
(* responses carry any of the bodies.                                      *)
(***************************************************************************)
InitModel ==
    /\ InitOllamaMonitor
    /\ InitExporter
    /\ InitTracker
    /\ InitSupervisor
    /\ InitMaintenance
    /\ request_body \in [Sessions -> Bodies]
    /\ call = NoCall

NextModel ==
    \/ \E sid \in Sessions, response \in Records : track_generation(sid, response)
    \/ ollama_monitor_loop_tick
    \/ \E ok \in BOOLEAN : ollama_monitor_loop_insert(ok)
    \/ ollama_monitor_loop_clear

SpecModel == InitModel /\ [][NextModel]_vars

\* the "model" members of a body
ModelMembers(body) == {i \in DOMAIN body.members : body.members[i].key = "model"}

\* the model names a session id is known under: its partial, its finalized
\* sessions and its rows
TrackedModels(sid) ==
    (IF sid \in DOMAIN active_sessions THEN {active_sessions[sid].model} ELSE {})
    \cup {completed_sessions[i].model :
              i \in {j \in DOMAIN completed_sessions : completed_sessions[j].id = sid}}
    \cup {llm_sessions[i].model : i \in RowsWithId(llm_sessions, sid)}

WorkloadCategories == {"gaming", "llm_inference", "ml_training", "general_compute", "unknown"}

\* db.rs:248-253  the categories the summary goes through, in this order
SummaryCategories == <<"gaming", "llm_inference", "ml_training", "general_compute">>

\* db.rs:246  chrono::Duration::days(7)
WeekDays == 7

\* the weeks a summary is asked for: the one that ends after day 0 and the
\* one that starts after it
WeekStarts == {1 - WeekDays, 1}

\* the categories of the events: the first the summary goes through and a later one
EventCategories == {"gaming", "ml_training"}

\* how many categories a call gets through: a failure at the first query, a
\* failure in the middle, and no failure
Completions == {0, 2, 4}

\* gpu_utilization and gpu_memory_mb of a classified process
Loads == {[gpu_utilization |-> 10, gpu_memory_mb |-> 4],
          [gpu_utilization |-> 90, gpu_memory_mb |-> 2]}

\* db.rs:107-128  the row insert_process_event writes: duration_secs is not
\* among the columns it sets
ProcessEvent(now, category, load) ==
    [timestamp |-> now, category |-> category,
     gpu_utilization |-> load.gpu_utilization, gpu_memory_mb |-> load.gpu_memory_mb,
     duration_secs |-> None]

\* db.rs:265-267  WHERE category = ? AND DATE(timestamp) >= ? AND DATE(timestamp) < ?
InSummaryWindow(event, category, week_start) ==
    /\ event.category = category
    /\ DateOf(event.timestamp) >= week_start
    /\ DateOf(event.timestamp) < week_start + WeekDays

RECURSIVE SumOf(_, _)
SumOf(rows, column) ==
    IF rows = <<>> THEN 0
    ELSE (IF Head(rows)[column] = None THEN 0 ELSE Head(rows)[column])
         + SumOf(Tail(rows), column)

RECURSIVE MaxOf(_, _)
MaxOf(rows, column) ==
    IF rows = <<>> THEN 0
    ELSE LET m == MaxOf(Tail(rows), column)
         IN IF Head(rows)[column] > m THEN Head(rows)[column] ELSE m

RECURSIVE Gcd(_, _)
Gcd(a, b) == IF b = 0 THEN a ELSE Gcd(b, a % b)

\* AVG(column): the f64 sum / count, kept as a fraction in lowest terms
AvgOf(rows, column) ==
    IF rows = <<>> THEN Zero
    ELSE LET g == Gcd(SumOf(rows, column), Len(rows))
         IN Quotient(SumOf(rows, column) \div g, Len(rows) \div g)

\* db.rs:256-274  the aggregate row of the SELECT: a NULL aggregate is read as 0
SelectAggregates(events, category, week_start) ==
    LET rows == SelectSeq(events, LAMBDA ev : InSummaryWindow(ev, category, week_start))
    IN [event_count |-> Len(rows),
        avg_util |-> AvgOf(rows, "gpu_utilization"),
        max_util |-> MaxOf(rows, "gpu_utilization"),
        total_mem |-> SumOf(rows, "gpu_memory_mb"),
        total_duration |-> SumOf(rows, "duration_secs")]

\* db.rs:291-298  the values bound to the INSERT
SummaryRow(week_start, category, row) ==
    [week_start |-> week_start, week_end |-> week_start + WeekDays, category |-> category,
     total_duration_secs |-> row.total_duration,
     avg_gpu_utilization |-> row.avg_util,
     max_gpu_utilization |-> row.max_util,
     total_gpu_memory_mb |-> row.total_mem,
     event_count |-> row.event_count]

RowsWithKey(table, week_start, category) ==
    {r \in table : r.week_start = week_start /\ r.category = category}

\* an INSERT that has no conflict clause
insert_weekly_summary_noconflict(table, new) == table \cup {new}

\* db.rs:277-300  INSERT ... ON CONFLICT(week_start, category) DO UPDATE SET the
\* five aggregate columns
insert_weekly_summary(table, new) ==
    IF RowsWithKey(table, new.week_start, new.category) = {}
    THEN table \cup {new}
    ELSE { IF r \in RowsWithKey(table, new.week_start, new.category)
           THEN [r EXCEPT
                    !.total_duration_secs = new.total_duration_secs,
                    !.avg_gpu_utilization = new.avg_gpu_utilization,
                    !.max_gpu_utilization = new.max_gpu_utilization,
                    !.total_gpu_memory_mb = new.total_gpu_memory_mb,
                    !.event_count = new.event_count]
           ELSE r : r \in table }

\* db.rs:248-302  the loop over the first n categories
RECURSIVE SummarizeCategories(_, _, _, _)
SummarizeCategories(table, events, week_start, n) ==
    IF n = 0 THEN table
    ELSE LET before == SummarizeCategories(table, events, week_start, n - 1)
             row == SelectAggregates(events, SummaryCategories[n], week_start)
         IN IF row.event_count > 0
            THEN insert_weekly_summary(before, SummaryRow(week_start, SummaryCategories[n], row))
            ELSE before

\* db.rs:107-128  insert_process_event of a process classified now
insert_process_event(category, load) ==
    /\ Len(process_events) < MaxEvents
    /\ process_events' = Append(process_events, ProcessEvent(mtClock, category, load))
    /\ call' = NoCall
    /\ UNCHANGED <<mtClock, gpu_metrics, archive, mtEnabled, mt, mtSelected, mtDeleted>>
    /\ UNCHANGED <<weekly_summaries, request_body, trackerVars, svVars, obVars>>

\* db.rs:242-305  compute_weekly_summary(week_start): completed categories are
\* gone through before a query fails and `?` returns, all four when none fails.
\* call keeps the week, the outcome, and whether the call changed a row that
\* was there; insert_process_event forgets the call.
Database_compute_weekly_summary(week_start, completed) ==
    /\ weekly_summaries' =
          SummarizeCategories(weekly_summaries, process_events, week_start, completed)
    /\ call' = [op |-> "compute_weekly_summary", week_start |-> week_start,
                ok |-> completed = Len(SummaryCategories),
                overwrote |-> \E r \in weekly_summaries : r \notin weekly_summaries']
    /\ UNCHANGED <<mtClock, gpu_metrics, archive, mtEnabled, mt, mtSelected, mtDeleted>>
    /\ UNCHANGED <<process_events, request_body, trackerVars, svVars, obVars>>

\* an empty database
InitSummary ==
    /\ InitOllamaMonitor
    /\ InitExporter
    /\ InitTracker
    /\ InitSupervisor
    /\ InitFunctions
    /\ mtClock = 0
    /\ gpu_metrics = {}
    /\ archive = {}
    /\ mtEnabled = TRUE
    /\ mt = MtIdle
    /\ mtSelected = {}
    /\ mtDeleted = {}
    /\ process_events = <<>>
    /\ weekly_summaries = {}

NextSummary ==
    \/ MaintClockTick
    \/ \E category \in EventCategories, load \in Loads : insert_process_event(category, load)
    \/ \E week_start \in WeekStarts, completed \in Completions :
            Database_compute_weekly_summary(week_start, completed)

SpecSummary == InitSummary /\ [][NextSummary]_vars

\* the events of a category that lie in the seven days from week_start on
EventsOfWeek(category, week_start) ==
    {i \in DOMAIN process_events :
        /\ process_events[i].category = category
        /\ week_start * DayLen <= process_events[i].timestamp
        /\ process_events[i].timestamp < (week_start + WeekDays) * DayLen}

\* the rows of process_events at the given positions
EventRows(events) ==
    SelectSeq(process_events, LAMBDA ev : \E i \in events : ev = process_events[i])

\* the row holds the aggregates of the events of its category and week
AggregatesOf(r, events) ==
    /\ r.event_count = Cardinality(events)
    /\ r.week_end = r.week_start + WeekDays
    /\ \A i \in events : process_events[i].gpu_utilization <= r.max_gpu_utilization
    /\ \E i \in events : process_events[i].gpu_utilization = r.max_gpu_utilization
    /\ r.total_gpu_memory_mb = SumOf(EventRows(events), "gpu_memory_mb")
    /\ r.avg_gpu_utilization.num * r.event_count =
          SumOf(EventRows(events), "gpu_utilization") * r.avg_gpu_utilization.den
    /\ r.total_duration_secs = 0

\* at most one row per (week_start, category), and a row only where the
\* window of the week holds events of the category
SummaryRowsKeyed ==
    /\ \A r1, r2 \in weekly_summaries :
          r1.week_start = r2.week_start /\ r1.category = r2.category => r1 = r2
    /\ \A r \in weekly_summaries :
          /\ r.event_count >= 1
          /\ r.event_count <= Cardinality(EventsOfWeek(r.category, r.week_start))

\* after a call that returned Ok, with no event since, every category has the
\* row of its aggregates, or no row when the window holds none of its events
SummaryIsCurrent ==
    call.op = "compute_weekly_summary" /\ call.ok =>
        \A n \in DOMAIN SummaryCategories :
            LET events == EventsOfWeek(SummaryCategories[n], call.week_start)
                rows == RowsWithKey(weekly_summaries, call.week_start, SummaryCategories[n])
            IN IF events = {} THEN rows = {}
               ELSE /\ Cardinality(rows) = 1
                    /\ \A r \in rows : AggregatesOf(r, events)

\* a call that follows a call of the same week that returned Ok, with no event
\* in between, leaves the table as it is
RecomputeChangesNothing ==
    /\ call.op = "compute_weekly_summary" /\ call.ok
    /\ call'.op = "compute_weekly_summary" /\ call'.week_start = call.week_start
    /\ process_events' = process_events
    => weekly_summaries' = weekly_summaries

\* C21: compute_weekly_summary keeps at most one weekly_summaries row per
\* (week_start, category); a call that returns Ok leaves, for every category,
\* the row of the aggregates of the events in [week_start, week_start + 7d),
\* and no row for a category without events there; a second call of the same
\* week with no event in between changes nothing
WeeklySummaryUpserted ==
    /\ [](SummaryRowsKeyed /\ SummaryIsCurrent)
    /\ [][RecomputeChangesNothing]_vars

\* C21 witness: a week was computed again after a new event, its row was
\* overwritten and counts two events, and another category of the week has no row
WeekRecomputedAfterNewEvent ==
    /\ call.op = "compute_weekly_summary"
    /\ call.ok
    /\ call.overwrote
    /\ \E r \in weekly_summaries : r.week_start = call.week_start /\ r.event_count = 2
    /\ \E n \in DOMAIN SummaryCategories :
          RowsWithKey(weekly_summaries, call.week_start, SummaryCategories[n]) = {}

(***************************************************************************)
(* The GPU backend (gpu/mod.rs, gpu/nvml.rs).  A call is drawn with its    *)
(* arguments and what the driver, the operating system or the probe will   *)
(* answer; the action of the function fills in what it returns.            *)
(***************************************************************************)
PendingCall(op, args) == [op |-> op, args |-> args, done |-> FALSE, ret |-> <<>>]

\* the call has returned
Return(value) ==
    /\ ~call.done
    /\ call' = [call EXCEPT !.done = TRUE, !.ret = value]
    /\ UNCHANGED <<request_body, trackerVars, svVars, mtVars, obVars>>

Returned(op) == call.op = op /\ call.done

\* Result<T>
Ok(value) == [ok |-> TRUE, value |-> value, error |-> "none"]
Err(error) == [ok |-> FALSE, value |-> <<>>, error |-> error]

\* nvml.rs:37-60  the outcomes of NvmlMonitor::new(): Nvml::init() or
\* nvml.device_count() may fail
NvmlOutcomes == {"ok", "NvmlInitError", "NvmlError"}

NvmlMonitor_new(outcome) == IF outcome = "ok" THEN Ok("NvmlMonitor") ELSE Err(outcome)

\* gpu/mod.rs:14-40  GpuMonitorBackend::initialize
GpuMonitorBackend_initialize(config, nvml) ==
    IF config.enable_nvml
    THEN IF NvmlMonitor_new(nvml).ok THEN Ok("Nvml")
         ELSE IF config.fallback_to_nvidia_smi THEN Ok("Fallback")
         ELSE Err(NvmlMonitor_new(nvml).error)
    ELSE IF config.fallback_to_nvidia_smi THEN Ok("Fallback")
    ELSE Err("ServiceUnavailable")

InitializeCalls ==
    { PendingCall("initialize", [config |-> [enable_nvml |-> e, fallback_to_nvidia_smi |-> f],
                                 nvml |-> o]) :
        e \in BOOLEAN, f \in BOOLEAN, o \in NvmlOutcomes }

initialize ==
    /\ call.op = "initialize"
    /\ Return(GpuMonitorBackend_initialize(call.args.config, call.args.nvml))

(***************************************************************************)
(* What the driver reports for a device.  Each query answers or fails; a   *)
(* process list is a sequence of (pid, used_gpu_memory), the memory None   *)
(* for UsedGpuMemory::Unavailable.                                         *)
(***************************************************************************)
Pids == {1, 2}
UsedGpuMemory == {None, 5, 9}

ProcessInfo(pid, used) == [pid |-> pid, used_gpu_memory |-> used]
Report(procs) == [ok |-> TRUE, procs |-> procs]
FailedReport == [ok |-> FALSE, procs |-> <<>>]

RECURSIVE SeqsUpTo(_, _)
SeqsUpTo(S, n) ==
    IF n = 0 THEN {<<>>}
    ELSE SeqsUpTo(S, n - 1) \cup {Append(q, x) : q \in SeqsUpTo(S, n - 1), x \in S}

\* the answers of running_compute_processes and running_graphics_processes
Reports ==
    {FailedReport}
    \cup {Report(q) : q \in SeqsUpTo({ProcessInfo(pid, used) : pid \in Pids,
                                                               used \in UsedGpuMemory},
                                     MaxProcs)}

Device(handle, utilization, memory, temperature, power, compute, graphics) ==
    [handle |-> handle, utilization |-> utilization, memory |-> memory,
     temperature |-> temperature, power |-> power,
     compute |-> compute, graphics |-> graphics]

\* a device that answers every query and runs no process
HealthyDevice == Device(TRUE, 45, 8, 65, 250500, Report(<<>>), Report(<<>>))
\* device_by_index fails
NoHandleDevice == [HealthyDevice EXCEPT !.handle = FALSE]
\* utilization_rates fails
NoUtilizationDevice == [HealthyDevice EXCEPT !.utilization = None]
\* memory_info fails
NoMemoryDevice == [HealthyDevice EXCEPT !.memory = None]
\* temperature, power_usage and both process queries fail
NoSensorsDevice ==
    [HealthyDevice EXCEPT !.temperature = None, !.power = None,
                          !.compute = FailedReport, !.graphics = FailedReport]
\* one process that renders and computes
SharedPidDevice ==
    [HealthyDevice EXCEPT !.compute = Report(<<ProcessInfo(1, 5)>>),
                          !.graphics = Report(<<ProcessInfo(1, 9)>>)]

Devices == {HealthyDevice, NoHandleDevice, NoUtilizationDevice, NoMemoryDevice,
            NoSensorsDevice, SharedPidDevice}

\* the names the operating system knows (sysinfo)
OsNames == [pid \in {1} |-> "ollama"]

\* nvml.rs:161-172  get_process_name
get_process_name(pid) ==
    IF pid \in DOMAIN OsNames THEN <<OsNames[pid]>> ELSE <<"pid_", pid>>

\* nvml.rs:143-154  the GpuProcess pushed for an entry of the driver
GpuProcess(proc) ==
    [pid |-> proc.pid, name |-> get_process_name(proc.pid),
     used_gpu_memory |-> IF proc.used_gpu_memory = None THEN 0 ELSE proc.used_gpu_memory]

\* x put behind the entries that use at least as much memory
RECURSIVE InsertByMemory(_, _)
InsertByMemory(sorted, x) ==
    IF sorted = <<>> THEN <<x>>
    ELSE IF Head(sorted).used_gpu_memory < x.used_gpu_memory THEN <<x>> \o sorted
    ELSE <<Head(sorted)>> \o InsertByMemory(Tail(sorted), x)

\* nvml.rs:157  sort_by_key(|p| Reverse(p.used_gpu_memory)): a stable sort
RECURSIVE sort_by_key(_)
sort_by_key(procs) ==
    IF procs = <<>> THEN <<>>
    ELSE InsertByMemory(sort_by_key(SubSeq(procs, 1, Len(procs) - 1)), procs[Len(procs)])

\* nvml.rs:133-159  get_running_processes
get_running_processes(device) ==
    LET compute_processes == IF device.compute.ok THEN device.compute.procs ELSE <<>>
        graphics_processes == IF device.graphics.ok THEN device.graphics.procs ELSE <<>>
        listed == compute_processes \o graphics_processes
    IN sort_by_key([i \in DOMAIN listed |-> GpuProcess(listed[i])])

\* nvml.rs:87-131  collect_device_metrics
collect_device_metrics(device, index) ==
    IF ~device.handle THEN Err("NvmlError")
    ELSE IF device.utilization = None THEN Err("NvmlError")
    ELSE IF device.memory = None THEN Err("NvmlError")
    ELSE Ok([gpu_id |-> index,
             utilization_gpu |-> device.utilization,
             memory_used |-> device.memory,
             temperature |-> IF device.temperature = None THEN 0 ELSE device.temperature,
             power_usage |-> IF device.power = None THEN 0 ELSE device.power \div 1000,
             processes |-> get_running_processes(device)])

\* nvml.rs:69-76  the loop over the devices 0 .. n-1 (devices[i + 1] is device i)
RECURSIVE CollectedUpTo(_, _)
CollectedUpTo(devices, n) ==
    IF n = 0 THEN <<>>
    ELSE LET r == collect_device_metrics(devices[n], n - 1)
         IN IF r.ok THEN Append(CollectedUpTo(devices, n - 1), r.value)
            ELSE CollectedUpTo(devices, n - 1)

\* a call that fails as soon as one device fails
CollectFailed_anydevice(all_metrics, device_count) == Len(all_metrics) < device_count

\* nvml.rs:78  if all_metrics.is_empty() && self.device_count > 0
CollectFailed(all_metrics, device_count) == all_metrics = <<>> /\ device_count > 0

\* nvml.rs:66-85  NvmlMonitor::collect_metrics
NvmlMonitor_collect_metrics(devices) ==
    LET all_metrics == CollectedUpTo(devices, Len(devices))
    IN IF CollectFailed(all_metrics, Len(devices)) THEN Err("NvmlError")
       ELSE Ok(all_metrics)

CollectCalls == { PendingCall("collect_metrics", ds) : ds \in SeqsUpTo(Devices, MaxGpus) }

nvml_collect_metrics ==
    /\ call.op = "collect_metrics"
    /\ Return(NvmlMonitor_collect_metrics(call.args))

ProcessCalls ==
    { PendingCall("get_running_processes", [HealthyDevice EXCEPT !.compute = c, !.graphics = g]) :
        c \in Reports, g \in Reports }

nvml_get_running_processes ==
    /\ call.op = "get_running_processes"
    /\ Return(get_running_processes(call.args))

(***************************************************************************)
(* nvml.rs:207-226  parse_nvidia_smi_line.  A line is the sequence of its  *)
(* comma-separated fields after trim; a field is an unsigned integer, a    *)
(* decimal figure whole.frac, or other text.                               *)
(***************************************************************************)
IntField(n) == [kind |-> "int", whole |-> n, frac |-> 0]
DecField(whole, frac) == [kind |-> "dec", whole |-> whole, frac |-> frac]
TextField == [kind |-> "text", whole |-> 0, frac |-> 0]

\* str::parse::<u32>() and ::<u64>() followed by .ok(): digits only
parse_unsigned(field) == IF field.kind = "int" THEN field.whole ELSE None

\* str::parse::<f64>().ok(): an integer or a decimal figure
parse_f64(field) ==
    IF field.kind \in {"int", "dec"} THEN [some |-> TRUE, whole |-> field.whole, frac |-> field.frac]
    ELSE [some |-> FALSE, whole |-> 0, frac |-> 0]

\* f64 as u32: the fraction is dropped
AsU32(x) == x.whole

\* a conversion that takes the figure for KiB
BytesOfMiB_kib(mib) == mib * 1024

\* nvml.rs:220-221  * 1024 * 1024; a u64 holds the product of every MiB figure
\* below 2^44
BytesOfMiB(mib) == mib * 1024 * 1024

NoSample == [some |-> FALSE, sample |-> <<>>]

parse_nvidia_smi_line(parts) ==
    IF Len(parts) < 8 THEN NoSample
    ELSE IF \/ \E k \in {1, 3, 4, 5, 6, 7} : parse_unsigned(parts[k]) = None
            \/ ~parse_f64(parts[8]).some
         THEN NoSample
    ELSE [some |-> TRUE,
          sample |-> [gpu_id |-> parse_unsigned(parts[1]),
                      name |-> parts[2],
                      utilization_gpu |-> parse_unsigned(parts[3]),
                      utilization_memory |-> parse_unsigned(parts[4]),
                      memory_used |-> BytesOfMiB(parse_unsigned(parts[5])),
                      memory_total |-> BytesOfMiB(parse_unsigned(parts[6])),
                      temperature |-> parse_unsigned(parts[7]),
                      power_usage |-> AsU32(parse_f64(parts[8])),
                      processes |-> <<>>]]

\* nvml.rs:235  "0, NVIDIA GeForce RTX 3080, 45, 30, <used>, <total>, 65, <power>"
SmiLine(used, total, power) ==
    <<IntField(0), TextField, IntField(45), IntField(30), IntField(used), IntField(total),
      IntField(65), power>>

\* 250.5, 250, 0.9 and [N/A]
PowerFields == {DecField(250, 5), IntField(250), DecField(0, 9), TextField}

SmiLines ==
    { SmiLine(used, total, power) : used \in 0..MaxMiB, total \in 0..MaxMiB, power \in PowerFields }
    \cup { SubSeq(SmiLine(1, 2, DecField(250, 5)), 1, k) : k \in 0..7 }
    \cup { Append(SmiLine(1, 2, DecField(250, 5)), IntField(7)) }
    \cup { [SmiLine(1, 2, DecField(250, 5)) EXCEPT ![k] = f] :
              k \in {1, 3, 4, 5, 6, 7}, f \in {DecField(1, 5), TextField} }

ParseCalls == { PendingCall("parse_nvidia_smi_line", line) : line \in SmiLines }

fallback_parse_nvidia_smi_line ==
    /\ call.op = "parse_nvidia_smi_line"
    /\ Return(parse_nvidia_smi_line(call.args))

\* a call of one of the functions of the backend is about to be made
InitGpu ==
    /\ InitOllamaMonitor
    /\ InitExporter
    /\ InitTracker
    /\ InitSupervisor
    /\ InitMaintenance
    /\ request_body = DefaultBodies
    /\ call \in InitializeCalls \cup CollectCalls \cup ProcessCalls \cup ParseCalls

NextGpu ==
    \/ initialize
    \/ nvml_collect_metrics
    \/ nvml_get_running_processes
    \/ fallback_parse_nvidia_smi_line

SpecGpu == InitGpu /\ [][NextGpu]_vars

\* C22: initialize gives the driver backend when the binding is enabled and its
\* initialization succeeds, the probe when the initialization fails and the
\* fallback is enabled, and fails with ServiceUnavailable when the
\* initialization fails and the fallback is disabled
InitializePolicy ==
    Returned("initialize") /\ call.args.config.enable_nvml =>
        IF call.args.nvml = "ok" THEN call.ret = Ok("Nvml")
        ELSE IF call.args.config.fallback_to_nvidia_smi THEN call.ret = Ok("Fallback")
        ELSE call.ret = Err("ServiceUnavailable")

\* the device indices of the samples of a list
SampleIds(metrics) == [i \in DOMAIN metrics |-> metrics[i].gpu_id]

\* the devices whose three required queries answer
Succeeded(devices) ==
    {i \in DOMAIN devices :
        devices[i].handle /\ devices[i].utilization # None /\ devices[i].memory # None}

\* C23: collect_metrics returns one sample for exactly the devices whose
\* collection succeeded, in index order; it fails only when there are devices
\* and every one of them failed, and returns the empty list for no device
SampleForEachSucceededDevice ==
    Returned("collect_metrics") =>
        LET devices == call.args
            ids == SampleIds(call.ret.value)
        IN /\ call.ret.ok <=> ~(Len(devices) > 0 /\ Succeeded(devices) = {})
           /\ call.ret.ok =>
                /\ {ids[i] : i \in DOMAIN ids} = {d - 1 : d \in Succeeded(devices)}
                /\ \A i, j \in DOMAIN ids : i < j => ids[i] < ids[j]
           /\ Len(devices) = 0 => call.ret = Ok(<<>>)

\* C23 witness: of two devices the first failed and the second gave the only sample
SecondDeviceAloneSampled ==
    /\ Returned("collect_metrics")
    /\ Len(call.args) = 2
    /\ Succeeded(call.args) = {2}
    /\ call.ret.ok
    /\ SampleIds(call.ret.value) = <<1>>

\* the process lists a returned call has built
BuiltProcessLists ==
    IF Returned("get_running_processes") THEN {call.ret}
    ELSE IF Returned("collect_metrics") /\ call.ret.ok
    THEN {call.ret.value[i].processes : i \in DOMAIN call.ret.value}
    ELSE {}

\* C24: in a sample built from the driver each PID appears at most once in
\* processes, and a PID reported under the compute and the graphics context
\* has the single entry with the memory of the compute entry
PidsAppearOnce ==
    /\ \A procs \in BuiltProcessLists :
          \A i, j \in DOMAIN procs : procs[i].pid = procs[j].pid => i = j
    /\ Returned("get_running_processes") =>
          \A c \in DOMAIN call.args.compute.procs, g \in DOMAIN call.args.graphics.procs :
             call.args.compute.procs[c].pid = call.args.graphics.procs[g].pid =>
                \E i \in DOMAIN call.ret :
                    /\ call.ret[i].pid = call.args.compute.procs[c].pid
                    /\ call.ret[i].used_gpu_memory =
                          GpuProcess(call.args.compute.procs[c]).used_gpu_memory
                    /\ \A j \in DOMAIN call.ret : call.ret[j].pid = call.ret[i].pid => j = i

\* the fields of the line that must parse do
WellFormedFields(line) ==
    /\ \A k \in {1, 3, 4, 5, 6, 7} : line[k].kind = "int"
    /\ line[8].kind \in {"int", "dec"}

\* C27: parse_nvidia_smi_line gives no sample for fewer than 8 fields; for 8
\* well-formed fields it gives a sample whose memory fields are the MiB
\* figures times 1,048,576, whose power is the watt figure without its
\* fraction, and whose process list is empty
SmiLineConverted ==
    Returned("parse_nvidia_smi_line") =>
        LET line == call.args
        IN /\ Len(line) < 8 => ~call.ret.some
           /\ Len(line) = 8 /\ WellFormedFields(line) =>
                /\ call.ret.some
                /\ call.ret.sample.memory_used = line[5].whole * 1048576
                /\ call.ret.sample.memory_total = line[6].whole * 1048576
                /\ call.ret.sample.power_usage = line[8].whole
                /\ call.ret.sample.processes = <<>>

\* C27 witness: a line of 8 fields with used memory and 250.5 W gave a sample
DecimalWattsLineParsed ==
    /\ Returned("parse_nvidia_smi_line")
    /\ Len(call.args) = 8
    /\ call.args[8] = DecField(250, 5)
    /\ call.args[5].whole > 0
    /\ call.ret.some
    /\ call.ret.sample.power_usage = 250

(***************************************************************************)
(* The process classifier (classifier.rs).  A string is the sequence of    *)
(* its characters, so that contains, ends-with and to_lowercase are the    *)
(* operations on text that the code performs; a path is the sequence of    *)
(* its components.                                                         *)
(***************************************************************************)
Uppercase == <<"A", "B", "C", "D", "E", "F", "G", "H", "I", "J", "K", "L", "M",
               "N", "O", "P", "Q", "R", "S", "T", "U", "V", "W", "X", "Y", "Z">>
Lowercase == <<"a", "b", "c", "d", "e", "f", "g", "h", "i", "j", "k", "l", "m",
               "n", "o", "p", "q", "r", "s", "t", "u", "v", "w", "x", "y", "z">>

\* char::to_lowercase
LowerChar(c) ==
    IF \E k \in DOMAIN Uppercase : Uppercase[k] = c
    THEN Lowercase[CHOOSE k \in DOMAIN Uppercase : Uppercase[k] = c]
    ELSE c

\* str::to_lowercase
to_lowercase(text) == [k \in DOMAIN text |-> LowerChar(text[k])]

\* str::contains(&str)
contains(text, pattern) ==
    \E k \in 1..(Len(text) - Len(pattern) + 1) :
        SubSeq(text, k, k + Len(pattern) - 1) = pattern

\* str::ends_with
ends_with(text, suffix) ==
    /\ Len(suffix) <= Len(text)
    /\ SubSeq(text, Len(text) - Len(suffix) + 1, Len(text)) = suffix

\* the text in front of a suffix
StripSuffix(text, suffix) == SubSeq(text, 1, Len(text) - Len(suffix))

Ollama == <<"o", "l", "l", "a", "m", "a">>
Game == <<"g", "a", "m", "e">>
DotExe == <<".", "e", "x", "e">>
Dx12Exe == <<"-", "d", "x", "1", "2", ".", "e", "x", "e">>
VulkanExe == <<"-", "v", "u", "l", "k", "a", "n", ".", "e", "x", "e">>
Unity == <<"u", "n", "i", "t", "y">>
Unreal == <<"u", "n", "r", "e", "a", "l">>
Python == <<"p", "y", "t", "h", "o", "n">>
Tensorflow == <<"t", "e", "n", "s", "o", "r", "f", "l", "o", "w">>
Torch == <<"t", "o", "r", "c", "h">>
Jax == <<"j", "a", "x">>
Mxnet == <<"m", "x", "n", "e", "t">>

\* classifier.rs:206-210  ml_keywords
MlKeywords ==
    {<<"t", "r", "a", "n", "s", "f", "o", "r", "m", "e", "r", "s">>,
     <<"t", "o", "r", "c", "h">>,
     <<"t", "e", "n", "s", "o", "r", "f", "l", "o", "w">>,
     <<"k", "e", "r", "a", "s">>,
     <<"p", "y", "t", "o", "r", "c", "h">>,
     <<"j", "a", "x">>,
     <<"f", "l", "a", "x">>,
     <<"d", "i", "f", "f", "u", "s", "e", "r", "s">>,
     <<"v", "l", "l", "m">>,
     <<"l", "l", "a", "m", "a">>,
     <<"h", "u", "g", "g", "i", "n", "g", "f", "a", "c", "e">>,
     <<"m", "o", "d", "e", "l", ".", "p", "y">>,
     <<"t", "r", "a", "i", "n", ".", "p", "y">>}

\* classifier.rs:225-229  the keywords of looks_like_inference
InferenceKeywords ==
    {<<"g", "e", "n", "e", "r", "a", "t", "e">>,
     <<"i", "n", "f", "e", "r", "e", "n", "c", "e">>,
     <<"p", "r", "e", "d", "i", "c", "t">>,
     <<"s", "e", "r", "v", "e">>,
     <<"a", "p", "i">>}

\* process names
NameOllama == <<"o", "l", "l", "a", "m", "a">>
NameOllamaRunner == <<"O", "l", "l", "a", "m", "a", "-", "r", "u", "n", "n", "e", "r">>
NamePython3 == <<"p", "y", "t", "h", "o", "n", "3">>
NameDoomExe == <<"D", "O", "O", "M", ".", "E", "X", "E">>
NameUnityExe == <<"u", "n", "i", "t", "y", "-", "d", "x", "1", "2", ".", "e", "x", "e">>
NameBlender == <<"b", "l", "e", "n", "d", "e", "r">>
NameExeDaemon == <<"e", "x", "e", "d">>
Names == {NameOllama, NameOllamaRunner, NamePython3, NameDoomExe, NameUnityExe, NameBlender, NameExeDaemon}

\* command lines: the arguments joined by a space
CmdNone == <<>>
CmdOllamaServe ==
    <<"/", "u", "s", "r", "/", "b", "i", "n", "/", "o", "l", "l", "a", "m", "a", " ", "s", "e",
      "r", "v", "e">>
CmdTrain ==
    <<"p", "y", "t", "h", "o", "n", "3", " ", "t", "r", "a", "i", "n", ".", "p", "y", " ", "-",
      "-", "m", "o", "d", "e", "l", " ", "t", "r", "a", "n", "s", "f", "o", "r", "m", "e", "r",
      " ", "-", "-", "e", "p", "o", "c", "h", "s", " ", "1", "0">>
CmdInference ==
    <<"p", "y", "t", "h", "o", "n", "3", " ", "i", "n", "f", "e", "r", "e", "n", "c", "e", ".",
      "p", "y", " ", "-", "-", "m", "o", "d", "e", "l", " ", "l", "l", "a", "m", "a", " ", "-",
      "-", "g", "e", "n", "e", "r", "a", "t", "e">>
CmdTorch ==
    <<"p", "y", "t", "h", "o", "n", "3", " ", "-", "c", " ", "i", "m", "p", "o", "r", "t", " ",
      "t", "o", "r", "c", "h">>
CmdPyTorchServe == <<"P", "y", "T", "o", "r", "c", "h", " ", "s", "e", "r", "v", "e">>
CmdJax == <<"r", "u", "n", " ", "J", "A", "X">>
CmdKerasPredict == <<"k", "e", "r", "a", "s", " ", "p", "r", "e", "d", "i", "c", "t">>
CmdRender == <<"b", "l", "e", "n", "d", "e", "r", " ", "-", "b", " ", "s", "c", "e", "n", "e">>
Cmdlines == {CmdNone, CmdOllamaServe, CmdTrain, CmdInference, CmdTorch, CmdPyTorchServe, CmdJax, CmdKerasPredict, CmdRender}

\* path components
DirHome == <<"h", "o", "m", "e">>
DirUser == <<"u">>
DirSteam == <<".", "s", "t", "e", "a", "m">>
DirSteam2 == <<"s", "t", "e", "a", "m">>
DirSteamapps == <<"s", "t", "e", "a", "m", "a", "p", "p", "s">>
DirCommon == <<"c", "o", "m", "m", "o", "n">>
DirCommonplace == <<"c", "o", "m", "m", "o", "n", "p", "l", "a", "c", "e">>
DirDoom == <<"d", "o", "o", "m">>
DirOpt == <<"o", "p", "t">>
DirGames == <<"G", "a", "m", "e", "s">>
DirUsr == <<"u", "s", "r">>
DirBin == <<"b", "i", "n">>
FileBlender == <<"b", "l", "e", "n", "d", "e", "r">>
FileDoom == <<"d", "o", "o", "m", ".", "x", "8", "6">>

\* Option<PathBuf>::None
NoPath == <<>>

\* ~/.steam/steam/steamapps/common
SteamRoot == <<DirHome, DirUser, DirSteam, DirSteam2, DirSteamapps, DirCommon>>

\* executables: a system binary, a game of the Steam library, a binary of a
\* directory whose name only starts like the library, and a binary under /opt/Games
ExePaths ==
    { NoPath,
      <<DirUsr, DirBin, FileBlender>>,
      SteamRoot \o <<DirDoom, FileDoom>>,
      <<DirHome, DirUser, DirSteam, DirSteam2, DirSteamapps, DirCommonplace, FileBlender>>,
      <<DirOpt, DirGames, FileBlender>> }

\* classifier.rs:241-274  discover_steam_libraries: the directory exists or not
SteamLibraries == { <<>>, <<SteamRoot>> }

\* gpu utilization around the threshold of the game patterns
Utilizations == {0, 60, 61, 100}

\* Path::to_string_lossy: the components behind "/" each
RECURSIVE to_string_lossy(_)
to_string_lossy(path) ==
    IF path = <<>> THEN <<>> ELSE <<"/">> \o Head(path) \o to_string_lossy(Tail(path))

\* Path::starts_with: component by component
starts_with(path, base) ==
    /\ Len(base) <= Len(path)
    /\ SubSeq(path, 1, Len(base)) = base

\* classifier.rs:232-239
is_in_steam_library(steam_library_paths, path) ==
    \E k \in DOMAIN steam_library_paths : starts_with(path, steam_library_paths[k])

\* classifier.rs:50-56  game_patterns, each as the test its regex makes on a
\* name: (?i).*\.exe$, (?i).*-dx12\.exe$, (?i).*-vulkan\.exe$,
\* (?i).*game.*\.exe$, (?i).*(unity|unreal).*\.exe$
game_patterns ==
    << [name \in Names |-> ends_with(to_lowercase(name), DotExe)],
       [name \in Names |-> ends_with(to_lowercase(name), Dx12Exe)],
       [name \in Names |-> ends_with(to_lowercase(name), VulkanExe)],
       [name \in Names |->
            /\ ends_with(to_lowercase(name), DotExe)
            /\ contains(StripSuffix(to_lowercase(name), DotExe), Game)],
       [name \in Names |->
            /\ ends_with(to_lowercase(name), DotExe)
            /\ \/ contains(StripSuffix(to_lowercase(name), DotExe), Unity)
               \/ contains(StripSuffix(to_lowercase(name), DotExe), Unreal)] >>

\* a threshold that the utilization may equal
HighGpuUsage_atleast(gpu_util) == gpu_util >= 60

\* classifier.rs:192  gpu_util > 60
HighGpuUsage(gpu_util) == gpu_util > 60

\* classifier.rs:178-199
is_game(steam_library_paths, name, exe_path, gpu_util) ==
    \/ /\ exe_path # NoPath
       /\ \/ is_in_steam_library(steam_library_paths, exe_path)
          \/ contains(to_lowercase(to_string_lossy(exe_path)), Game)
    \/ \E k \in DOMAIN game_patterns : game_patterns[k][name] /\ HighGpuUsage(gpu_util)

\* classifier.rs:201-213
is_python_ml(name, cmdline) ==
    /\ contains(to_lowercase(name), Python)
    /\ \E kw \in MlKeywords : contains(to_lowercase(cmdline), kw)

\* classifier.rs:215-221
is_ml_framework(cmdline) ==
    LET cmdline_lower == to_lowercase(cmdline)
    IN \/ contains(cmdline_lower, Tensorflow)
       \/ contains(cmdline_lower, Torch)
       \/ contains(cmdline_lower, Jax)
       \/ contains(cmdline_lower, Mxnet)

\* classifier.rs:223-230
looks_like_inference(cmdline) ==
    \E kw \in InferenceKeywords : contains(to_lowercase(cmdline), kw)

\* classifier.rs:148-176
determine_category(steam_library_paths, name, cmdline, exe_path, gpu_util) ==
    IF contains(to_lowercase(name), Ollama) THEN "llm_inference"
    ELSE IF is_ml_framework(cmdline) THEN "ml_training"
    ELSE IF is_python_ml(name, cmdline)
         THEN IF looks_like_inference(cmdline) THEN "llm_inference" ELSE "ml_training"
    ELSE IF is_game(steam_library_paths, name, exe_path, gpu_util) THEN "gaming"
    ELSE "general_compute"

CategoryCalls ==
    { PendingCall("determine_category",
                  [steam_library_paths |-> roots, name |-> name, cmdline |-> cmdline,
                   exe_path |-> exe_path, gpu_util |-> gpu_util]) :
        roots \in SteamLibraries, name \in Names, cmdline \in Cmdlines,
        exe_path \in ExePaths, gpu_util \in Utilizations }

classifier_determine_category ==
    /\ call.op = "determine_category"
    /\ LET a == call.args
       IN Return(determine_category(a.steam_library_paths, a.name, a.cmdline,
                                    a.exe_path, a.gpu_util))


(***************************************************************************)
(* classifier.rs:73-146  classify_gpu_processes.  live is the set of PIDs  *)
(* the refreshed process table of the operating system holds.              *)
(***************************************************************************)
\* name, command line and executable of the processes of the machine
OsProcesses ==
    [pid \in Pids |->
        IF pid = 1
        THEN [name |-> NameOllama, command_line |-> CmdOllamaServe,
              exe_path |-> <<DirUsr, DirBin, FileBlender>>]
        ELSE [name |-> NameDoomExe, command_line |-> CmdNone,
              exe_path |-> SteamRoot \o <<DirDoom, FileDoom>>]]

\* the processes field of a sample: 1 MiB and 3 MiB + 1 byte of GPU memory
SampleProcesses ==
    {ProcessInfo(1, 1048576), ProcessInfo(1, 3145729), ProcessInfo(2, 1048576)}

GpuSamples ==
    { [utilization_gpu |-> u, processes |-> procs] :
        u \in {50, 90}, procs \in SeqsUpTo(SampleProcesses, MaxProcs) }

\* classifier.rs:88-95  the (pid, value) pairs in the order they are inserted
RECURSIVE Insertions(_)
Insertions(samples) ==
    IF samples = <<>> THEN <<>>
    ELSE LET metrics == samples[Len(samples)]
         IN Insertions(SubSeq(samples, 1, Len(samples) - 1))
            \o [k \in DOMAIN metrics.processes |->
                  [pid |-> metrics.processes[k].pid,
                   used_gpu_memory |-> metrics.processes[k].used_gpu_memory,
                   utilization_gpu |-> metrics.utilization_gpu]]

\* classifier.rs:86-95  HashMap::insert: the last value of a key stays
pid_to_metrics(samples) ==
    LET ins == Insertions(samples)
        last(pid) == CHOOSE k \in DOMAIN ins :
                        /\ ins[k].pid = pid
                        /\ \A j \in DOMAIN ins : ins[j].pid = pid => j <= k
    IN [pid \in {ins[k].pid : k \in DOMAIN ins} |-> ins[last(pid)]]

\* classifier.rs:97  the orders in which a HashMap may be gone through
IterationOrders(map) ==
    {order \in [1..Cardinality(DOMAIN map) -> DOMAIN map] :
        \A a, b \in DOMAIN order : order[a] = order[b] => a = b}

\* a lookup that answers for every PID
system_process_anypid(live, pid) == [some |-> TRUE, info |-> OsProcesses[pid]]

\* classifier.rs:112  self.system.process(Pid::from_u32(pid))
system_process(live, pid) == [some |-> pid \in live, info |-> OsProcesses[pid]]

\* classifier.rs:106-146
classify_process(steam_library_paths, live, pid, gpu_memory, gpu_utilization) ==
    LET process == system_process(live, pid)
    IN IF ~process.some THEN [some |-> FALSE, value |-> <<>>]
       ELSE [some |-> TRUE,
             value |-> [pid |-> pid,
                        name |-> process.info.name,
                        category |-> determine_category(steam_library_paths,
                                        process.info.name, process.info.command_line,
                                        process.info.exe_path, gpu_utilization),
                        gpu_memory_mb |-> (gpu_memory \div 1024) \div 1024,
                        gpu_utilization |-> gpu_utilization,
                        command_line |-> process.info.command_line,
                        exe_path |-> process.info.exe_path]]

\* classifier.rs:97-101  the loop over the first n entries of the map
RECURSIVE ClassifiedUpTo(_, _, _, _, _)
ClassifiedUpTo(steam_library_paths, live, map, order, n) ==
    IF n = 0 THEN <<>>
    ELSE LET front == ClassifiedUpTo(steam_library_paths, live, map, order, n - 1)
             entry == map[order[n]]
             info == classify_process(steam_library_paths, live, order[n],
                                      entry.used_gpu_memory, entry.utilization_gpu)
         IN IF info.some THEN Append(front, info.value) ELSE front

ClassifyCalls ==
    { PendingCall("classify_gpu_processes", [gpu_metrics |-> gm, live |-> live]) :
        gm \in SeqsUpTo(GpuSamples, MaxGpus), live \in SUBSET Pids }

\* classifier.rs:73-104  ProcessClassifier::classify_gpu_processes
ProcessClassifier_classify_gpu_processes ==
    /\ call.op = "classify_gpu_processes"
    /\ LET map == pid_to_metrics(call.args.gpu_metrics)
       IN \E order \in IterationOrders(map) :
            Return(ClassifiedUpTo(<<SteamRoot>>, call.args.live, map, order, Len(order)))

\* a call of the classifier is about to be made
InitClassifier ==
    /\ InitOllamaMonitor
    /\ InitExporter
    /\ InitTracker
    /\ InitSupervisor
    /\ InitMaintenance
    /\ request_body = DefaultBodies
    /\ call \in CategoryCalls \cup ClassifyCalls

NextClassifier ==
    \/ classifier_determine_category
    \/ ProcessClassifier_classify_gpu_processes

SpecClassifier == InitClassifier /\ [][NextClassifier]_vars

\* some game pattern matches the name: all five end in \.exe$
MatchesGamePattern(name) == ends_with(to_lowercase(name), DotExe)

\* C25: determine_category is the first match of: name contains "ollama" gives
\* LlmInference; the command line names tensorflow, torch, jax or mxnet gives
\* MlTraining; a python name with an ML keyword gives LlmInference with an
\* inference keyword and MlTraining without; the game heuristic, in which a
\* name pattern counts only above 60 percent utilization, gives Gaming;
\* anything else is GeneralCompute
CategoryIsFirstMatch ==
    Returned("determine_category") =>
        LET a == call.args
            lower == to_lowercase(a.cmdline)
            game == \/ /\ a.exe_path # NoPath
                       /\ \/ \E k \in DOMAIN a.steam_library_paths :
                                starts_with(a.exe_path, a.steam_library_paths[k])
                          \/ contains(to_lowercase(to_string_lossy(a.exe_path)), Game)
                    \/ MatchesGamePattern(a.name) /\ a.gpu_util > 60
        IN call.ret =
            IF contains(to_lowercase(a.name), Ollama) THEN "llm_inference"
            ELSE IF \E kw \in {Tensorflow, Torch, Jax, Mxnet} : contains(lower, kw)
                 THEN "ml_training"
            ELSE IF contains(to_lowercase(a.name), Python)
                    /\ \E kw \in MlKeywords : contains(lower, kw)
                 THEN IF \E kw \in InferenceKeywords : contains(lower, kw)
                      THEN "llm_inference" ELSE "ml_training"
            ELSE IF game THEN "gaming"
            ELSE "general_compute"

\* C25 witness: a name that matches a game pattern, no executable path and
\* 60 percent utilization were classified, and not as a game
ExeNameAtSixtyPercent ==
    /\ Returned("determine_category")
    /\ MatchesGamePattern(call.args.name)
    /\ call.args.exe_path = NoPath
    /\ call.args.gpu_util = 60
    /\ call.args.cmdline = CmdNone
    /\ call.ret = "general_compute"

\* the PIDs the samples of a tick name
SamplePids(samples) ==
    UNION { {samples[i].processes[j].pid : j \in DOMAIN samples[i].processes} :
            i \in DOMAIN samples }

\* C26: classify_gpu_processes gives at most one ClassifiedProcess per PID
\* over the samples of a tick, and gives one for exactly the PIDs of the
\* samples that the operating system still knows
OneClassifiedPerLivePid ==
    Returned("classify_gpu_processes") =>
        /\ \A i, j \in DOMAIN call.ret : call.ret[i].pid = call.ret[j].pid => i = j
        /\ {call.ret[i].pid : i \in DOMAIN call.ret}
              = SamplePids(call.args.gpu_metrics) \cap call.args.live

\* C26 witness: two samples name PID 1, which is alive, and one names PID 2,
\* which is gone; the call gave the one entry of PID 1
PidOfTwoSamplesClassifiedOnce ==
    /\ Returned("classify_gpu_processes")
    /\ call.args.live = {1}
    /\ Len(call.args.gpu_metrics) = 2
    /\ \A i \in DOMAIN call.args.gpu_metrics :
          \E j \in DOMAIN call.args.gpu_metrics[i].processes :
              call.args.gpu_metrics[i].processes[j].pid = 1
    /\ Len(call.ret) = 1
    /\ call.ret[1].pid = 1

(***************************************************************************)
(* proxy.rs:100-112  the request proxy_handler builds for the backend.  A  *)
(* header is its name, in the lower case the http crate keeps, and whether *)
(* its value is visible ASCII (HeaderValue::to_str).                       *)
(***************************************************************************)
HeaderNames == {"host", "content-length", "transfer-encoding", "accept", "authorization"}

ClientHeaders == { [name |-> n, visible |-> v] : n \in HeaderNames, v \in BOOLEAN }

\* proxy.rs:103  name != "host" && name != "content-length"
IsForwardedName(name) == name # "host" /\ name # "content-length"

\* proxy.rs:102-108  the headers given to the request builder, in order
ForwardedHeaders(headers) ==
    SelectSeq(headers, LAMBDA h : IsForwardedName(h.name) /\ h.visible)

\* proxy.rs:100-112  the request that is sent: a body only when there are bytes
UpstreamRequest(headers, body_bytes) ==
    [headers |-> ForwardedHeaders(headers),
     has_body |-> body_bytes # EmptyBody,
     body |-> body_bytes]

RequestCalls ==
    { PendingCall("proxy_handler", [headers |-> hs, body_bytes |-> b]) :
        hs \in SeqsUpTo(ClientHeaders, MaxHeaders), b \in {EmptyBody, Llama2Body} }

proxy_handler_request ==
    /\ call.op = "proxy_handler"
    /\ Return(UpstreamRequest(call.args.headers, call.args.body_bytes))

\* a request is about to be forwarded
InitForward ==
    /\ InitOllamaMonitor
    /\ InitExporter
    /\ InitTracker
    /\ InitSupervisor
    /\ InitMaintenance
    /\ request_body = DefaultBodies
    /\ call \in RequestCalls

NextForward == proxy_handler_request

SpecForward == InitForward /\ [][NextForward]_vars

\* C28: the request sent upstream carries every header of the client except
\* host, content-length and transfer-encoding, and none of these three
UpstreamHeadersFiltered ==
    Returned("proxy_handler") =>
        LET stripped == {"host", "content-length", "transfer-encoding"}
        IN /\ call.ret.headers = SelectSeq(call.args.headers, LAMBDA h : h.name \notin stripped)
           /\ \A k \in DOMAIN call.ret.headers : call.ret.headers[k].name \notin stripped

(***************************************************************************)
(* Properties of track_generation and of the reaper (SpecSession).         *)
(***************************************************************************)
\* C32: when track_generation has processed a done=true chunk of a session id, the
\* partial map has no entry for that id
PartialRemovedOnDone ==
    [][\A sid \in Sessions :
            pushed'[sid] > pushed[sid] => sid \notin DOMAIN active_sessions']_vars

\* C35: every row of llm_sessions has total_tokens = prompt_tokens +
\* completion_tokens, also after a second upsert of its id
StoredTotalIsSum ==
    \A i \in DOMAIN llm_sessions :
        llm_sessions[i].total_tokens =
            llm_sessions[i].prompt_tokens + llm_sessions[i].completion_tokens

\* the partial map and the completed buffer across a step, but for the session sid
OthersKept(sid) ==
    /\ \A y \in DOMAIN active_sessions \ {sid} :
            /\ y \in DOMAIN active_sessions'
            /\ active_sessions'[y] = active_sessions[y]
    /\ Len(completed_sessions') >= Len(completed_sessions)
    /\ SubSeq(completed_sessions', 1, Len(completed_sessions)) = completed_sessions

\* C36: a call of track_generation for a session leaves the partial of every other
\* session and every session already in the completed buffer as they were
TrackGenerationFrame ==
    [][\A sid \in Sessions : applied'[sid] # applied[sid] => OthersKept(sid)]_vars

\* a session was finalized, its partial is in the map, and a chunk of the other
\* session was tracked after it
OtherSessionTrackedAfterFinalization ==
    \E x \in Sessions, y \in Sessions :
        /\ x # y
        /\ x \in DOMAIN active_sessions
        /\ y \in DOMAIN active_sessions
        /\ pushed[x] = 1
        /\ Len(completed_sessions) = 1
        /\ completed_sessions[1].id = x
        /\ active_sessions[y].start_time > active_sessions[x].start_time

(***************************************************************************)
(* Properties of the streams, the tracker tasks and the reaper (Spec).     *)
(***************************************************************************)
\* the ids of the sessions that left the tracker: pushed to the completed buffer
\* or on the way to it, read by the reaper, or stored
EmittedIds ==
    {s \in Sessions : pushed[s] > 0 \/ stored[s] > 0}
    \cup {e.id : e \in EmittedSessions}
    \cup {reaper.sessions[i].id : i \in DOMAIN reaper.sessions}
    \cup {llm_sessions[i].id : i \in DOMAIN llm_sessions}

\* a done=true record of the stream of sid was handed to track_generation
TerminalChunkTracked(sid) == \E k \in DOMAIN fed[sid] : fed[sid][k].done

\* C37: a session is pushed to the completed buffer, read by the reaper or stored
\* only if a done=true chunk was tracked for its id; a session whose stream ended
\* without one is never emitted
OnlyTerminatedEmitted == \A sid \in EmittedIds : TerminalChunkTracked(sid)

\* the stream of s1 ended after a token chunk and its tracker task has run: the
\* partial is in the map and nothing of s1 was emitted, while the reaper has
\* stored the session of s2
StreamEndedWithoutTerminalChunk ==
    /\ "s1" \in closed
    /\ fed["s1"] = <<RespToken>>
    /\ tasks = <<>>
    /\ "s1" \in DOMAIN active_sessions
    /\ pushed["s1"] = 0
    /\ stored["s2"] = 1
    /\ reaper.pc = "idle"
    /\ completed_sessions = <<>>

\* the session a task has finalized carries the counters of its done=true record
CarriesTerminalCounters(t) ==
    /\ t.response.eval_count # None => t.session.completion_tokens = t.response.eval_count
    /\ t.response.prompt_eval_count # None =>
            t.session.prompt_tokens = t.response.prompt_eval_count

\* C34: the chunks of a streaming response are applied in upstream order: the
\* session a task finalizes carries the counters of the terminal chunk, and when
\* the task of the terminal chunk has finalized, no task of a chunk that upstream
\* sent before it (tasks are kept in spawn order) still has its chunk to apply
ChunksAppliedInUpstreamOrder ==
    \A j \in DOMAIN tasks :
        tasks[j].pc = "push" =>
            /\ CarriesTerminalCounters(tasks[j])
            /\ \A i \in 1..(j - 1) :
                    tasks[i].sid = tasks[j].sid => tasks[i].pc = "push"

(***************************************************************************)
(* Properties of the maintenance pass (SpecMaint).                         *)
(***************************************************************************)
\* a step of the pass in which an export fails ends the pass and leaves the rows
ExportErrorEndsPass ==
    (mt.pc = "archive" /\ mt'.result = "err") =>
        /\ mt'.pc = "idle"
        /\ gpu_metrics' = gpu_metrics
        /\ mtDeleted' = {}

\* C40: when one of the three exports of a maintenance pass fails, the pass returns
\* the error and has deleted no row
FailedExportDeletesNothing ==
    /\ [][ExportErrorEndsPass]_vars
    /\ [](mt.result = "err" /\ Len(mt.counts) < Len(Tables) =>
            mt.pc = "idle" /\ mtDeleted = {})

\* the third export failed after two that returned rows, and gpu_metrics holds a
\* row that cleanup_old_data would delete at this moment
ThirdExportFailedWithOldRows ==
    /\ mt.pc = "idle"
    /\ mt.result = "err"
    /\ mt.counts = <<1, 1>>
    /\ \E ts \in gpu_metrics : DeletePredicate(ts, CutoffInstant(mtClock))

(***************************************************************************)
(* The two locks of OllamaMonitor (ollama.rs:54-55, tokio::sync::RwLock)   *)
(* with track_generation and the reaper in the steps of their awaits.      *)
(* A guard is [task, mode]; the task of the reaper is 0 and the task of a  *)
(* call of track_generation is its index in tasks, which are kept here     *)
(* when they have returned.  The lock is fair: waiters are served in the   *)
(* order of their requests.                                                *)
(***************************************************************************)
Reaper == 0

\* RwLock::read() / RwLock::write() is called: the caller joins the queue
Request(lk, l, t, mode) == [lk EXCEPT ![l].queue = Append(@, [task |-> t, mode |-> mode])]

\* the end of the scope of the guards of a task
Release(lk, t) ==
    [l \in LockNames |-> [lk[l] EXCEPT !.holders = {h \in @ : h.task # t}]]

Holds(l, t) == \E h \in locks[l].holders : h.task = t

Waits(l, t) == \E k \in DOMAIN locks[l].queue : locks[l].queue[k].task = t

\* the guard of the partial map stays alive until the function returns
drop_sessions_atreturn(lk, t) == lk

\* ollama.rs:167  drop(sessions)
drop_sessions(lk, t) ==
    [lk EXCEPT !["active_sessions"].holders = {h \in @ : h.task # t}]

\* tokio RwLock: the first waiter gets its guard when no writer holds the lock
\* and, for a writer, no reader either
RwLock_grant(l) ==
    /\ locks[l].queue # <<>>
    /\ LET h == Head(locks[l].queue)
       IN /\ IF h.mode = "write" THEN locks[l].holders = {}
             ELSE \A g \in locks[l].holders : g.mode = "read"
          /\ locks' = [locks EXCEPT ![l].holders = @ \cup {h}, ![l].queue = Tail(@)]
    /\ UNCHANGED <<trackerVars, svVars, mtVars, fnVars>>
    /\ UNCHANGED <<offered, recorded, process_count, classified_processes>>

\* ollama.rs:129  self.active_sessions.write().await
track_generation_await_sessions(i) ==
    /\ tasks[i].pc = "lock"
    /\ tasks' = [tasks EXCEPT ![i].pc = "sessions"]
    /\ locks' = Request(locks, "active_sessions", i, "write")
    /\ UNCHANGED <<clock, active_sessions, completed_sessions, received, written,
                   closed, reaper, llm_sessions, pushed, stored>>
    /\ UNCHANGED <<pxVars, svVars, mtVars, fnVars>>
    /\ UNCHANGED <<offered, recorded, process_count, classified_processes>>

\* ollama.rs:131-167  under the guard of the partial map: the entry is updated;
\* a done=true record is finalized and the guard dropped, any other record
\* ends the call and with it the guard
track_generation_sessions(i) ==
    /\ tasks[i].pc = "sessions"
    /\ Holds("active_sessions", i)
    /\ LET sid == tasks[i].sid
           response == tasks[i].response
           now == tasks[i].now
           entry == IF sid \in DOMAIN active_sessions THEN active_sessions[sid]
                    ELSE NewTracker(sid, RequestModel(sid), now)
           tracker == ApplyResponse(entry, response, now)
       IN IF IsTerminal(response)
          THEN /\ active_sessions' = AfterFinalize(SetEntry(active_sessions, sid, tracker), sid)
               /\ tasks' = [tasks EXCEPT ![i].pc = "push",
                                         ![i].session = finalize_session(tracker, clock)]
               /\ locks' = drop_sessions(locks, i)
          ELSE /\ active_sessions' = SetEntry(active_sessions, sid, tracker)
               /\ tasks' = [tasks EXCEPT ![i].pc = "returned"]
               /\ locks' = Release(locks, i)
    /\ UNCHANGED <<clock, completed_sessions, received, written, closed, reaper,
                   llm_sessions, pushed, stored>>
    /\ UNCHANGED <<pxVars, svVars, mtVars, fnVars>>
    /\ UNCHANGED <<offered, recorded, process_count, classified_processes>>

\* ollama.rs:169  self.completed_sessions.write().await
track_generation_await_completed(i) ==
    /\ tasks[i].pc = "push"
    /\ tasks' = [tasks EXCEPT ![i].pc = "completed"]
    /\ locks' = Request(locks, "completed_sessions", i, "write")
    /\ UNCHANGED <<clock, active_sessions, completed_sessions, received, written,
                   closed, reaper, llm_sessions, pushed, stored>>
    /\ UNCHANGED <<pxVars, svVars, mtVars, fnVars>>
    /\ UNCHANGED <<offered, recorded, process_count, classified_processes>>

\* ollama.rs:170-179  completed.push(session) and the return of the call
track_generation_completed(i) ==
    /\ tasks[i].pc = "completed"
    /\ Holds("completed_sessions", i)
    /\ completed_sessions' = Append(completed_sessions, tasks[i].session)
    /\ pushed' = [pushed EXCEPT ![tasks[i].sid] = @ + 1]
    /\ tasks' = [tasks EXCEPT ![i].pc = "returned"]
    /\ locks' = Release(locks, i)
    /\ UNCHANGED <<clock, active_sessions, received, written, closed, reaper,
                   llm_sessions, stored>>
    /\ UNCHANGED <<pxVars, svVars, mtVars, fnVars>>
    /\ UNCHANGED <<offered, recorded, process_count, classified_processes>>

\* service.rs:260-267 and ollama.rs:216  a tick of the reaper up to
\* self.completed_sessions.read().await
get_completed_sessions_await ==
    /\ reaper.pc = "idle"
    /\ reaper' = [reaper EXCEPT !.pc = "read"]
    /\ locks' = Request(locks, "completed_sessions", Reaper, "read")
    /\ UNCHANGED <<clock, active_sessions, completed_sessions, tasks, received, written,
                   closed, llm_sessions, pushed, stored>>
    /\ UNCHANGED <<pxVars, svVars, mtVars, fnVars>>
    /\ UNCHANGED <<offered, recorded, process_count, classified_processes>>

\* ollama.rs:216  .clone() under the read guard, which ends with the statement
get_completed_sessions_clone ==
    /\ reaper.pc = "read"
    /\ Holds("completed_sessions", Reaper)
    /\ reaper' = [pc |-> IF completed_sessions = <<>> THEN "clear" ELSE "insert",
                  sessions |-> completed_sessions]
    /\ locks' = Release(locks, Reaper)
    /\ UNCHANGED <<clock, active_sessions, completed_sessions, tasks, received, written,
                   closed, llm_sessions, pushed, stored>>
    /\ UNCHANGED <<pxVars, svVars, mtVars, fnVars>>
    /\ UNCHANGED <<offered, recorded, process_count, classified_processes>>

\* a loop that goes to the next session when the Store write fails
RecordsTelemetry_onsuccess(ok) == ok

\* service.rs:269-279  the error of the upsert is logged and the two telemetry
\* families record the session
RecordsTelemetry(ok) == TRUE

\* service.rs:268-280  one iteration of for session in sessions: the upsert,
\* which may fail, and the telemetry
ollama_monitor_loop_session(ok) ==
    /\ reaper.pc = "insert"
    /\ LET session == Head(reaper.sessions)
       IN /\ llm_sessions' = IF ok THEN insert_llm_session(llm_sessions, session)
                             ELSE llm_sessions
          /\ stored' = IF ok THEN [stored EXCEPT ![session.id] = @ + 1] ELSE stored
          /\ offered' = [offered EXCEPT ![session.id] = @ + 1]
          /\ recorded' = IF RecordsTelemetry(ok)
                         THEN [recorded EXCEPT ![session.id] = @ + 1] ELSE recorded
    /\ reaper' = [pc |-> IF Len(reaper.sessions) = 1 THEN "clear" ELSE "insert",
                  sessions |-> Tail(reaper.sessions)]
    /\ UNCHANGED <<clock, active_sessions, completed_sessions, tasks, received, written,
                   closed, pushed>>
    /\ UNCHANGED <<pxVars, svVars, mtVars, fnVars>>
    /\ UNCHANGED <<locks, process_count, classified_processes>>

\* service.rs:281 and ollama.rs:220  self.completed_sessions.write().await
clear_completed_sessions_await ==
    /\ reaper.pc = "clear"
    /\ reaper' = [reaper EXCEPT !.pc = "write"]
    /\ locks' = Request(locks, "completed_sessions", Reaper, "write")
    /\ UNCHANGED <<clock, active_sessions, completed_sessions, tasks, received, written,
                   closed, llm_sessions, pushed, stored>>
    /\ UNCHANGED <<pxVars, svVars, mtVars, fnVars>>
    /\ UNCHANGED <<offered, recorded, process_count, classified_processes>>

\* ollama.rs:220  .clear() under the write guard, and the end of the tick
clear_completed_sessions_clear ==
    /\ reaper.pc = "write"
    /\ Holds("completed_sessions", Reaper)
    /\ completed_sessions' = <<>>
    /\ reaper' = [pc |-> "idle", sessions |-> <<>>]
    /\ locks' = Release(locks, Reaper)
    /\ UNCHANGED <<clock, active_sessions, tasks, received, written, closed,
                   llm_sessions, pushed, stored>>
    /\ UNCHANGED <<pxVars, svVars, mtVars, fnVars>>
    /\ UNCHANGED <<offered, recorded, process_count, classified_processes>>

\* the calls of track_generation that the proxy has spawned: MaxTasks tasks, dealt
\* to the two sessions in turn, each for a token record or a terminal record
SpawnedTasks ==
    [1..MaxTasks -> { [sid |-> sid, response |-> r, pc |-> "now", now |-> None,
                       session |-> NoSession] :
                         sid \in Sessions, r \in {RespToken, RespDone} }]

InitLocks ==
    /\ tasks \in { ts \in SpawnedTasks :
                     \A i \in DOMAIN ts : ts[i].sid = (IF i % 2 = 1 THEN "s1" ELSE "s2") }
    /\ InitSupervisor
    /\ InitMaintenance
    /\ InitFunctions
    /\ InitOllamaMonitor
    /\ InitExporter
    /\ clock = 0
    /\ active_sessions = <<>>
    /\ completed_sessions = <<>>
    /\ received = [s \in Sessions |-> <<>>]
    /\ written = [s \in Sessions |-> <<>>]
    /\ closed = {}
    /\ reaper = [pc |-> "idle", sessions |-> <<>>]
    /\ llm_sessions = <<>>
    /\ pushed = [s \in Sessions |-> 0]
    /\ stored = [s \in Sessions |-> 0]
    /\ applied = [s \in Sessions |-> <<>>]
    /\ fed = [s \in Sessions |-> <<>>]
    /\ allocated = Sessions
    /\ pxLast = NoRequest

NextLocks ==
    \/ \E l \in LockNames : RwLock_grant(l)
    \/ \E i \in DOMAIN tasks : track_generation_now(i)
    \/ \E i \in DOMAIN tasks : track_generation_await_sessions(i)
    \/ \E i \in DOMAIN tasks : track_generation_sessions(i)
    \/ \E i \in DOMAIN tasks : track_generation_await_completed(i)
    \/ \E i \in DOMAIN tasks : track_generation_completed(i)
    \/ get_completed_sessions_await
    \/ get_completed_sessions_clone
    \/ \E ok \in BOOLEAN : ollama_monitor_loop_session(ok)
    \/ clear_completed_sessions_await
    \/ clear_completed_sessions_clear

SpecLocks == InitLocks /\ [][NextLocks]_vars

\* the steps of one call of track_generation, and those of a tick of the reaper
\* after its timer has fired
track_generation_task(i) ==
    \/ track_generation_now(i)
    \/ track_generation_await_sessions(i)
    \/ track_generation_sessions(i)
    \/ track_generation_await_completed(i)
    \/ track_generation_completed(i)

ollama_monitor_loop_body ==
    \/ get_completed_sessions_clone
    \/ \E ok \in BOOLEAN : ollama_monitor_loop_session(ok)
    \/ clear_completed_sessions_await
    \/ clear_completed_sessions_clear

\* the polling of the tasks by the runtime and the wake-ups of the locks: a
\* task that can take its next step takes it, a lock that can serve its first
\* waiter serves it
FairLocks ==
    /\ \A l \in LockNames : WF_vars(RwLock_grant(l))
    /\ \A i \in 1..MaxTasks : WF_vars(track_generation_task(i))
    /\ WF_vars(ollama_monitor_loop_body)

SpecLocksFair == InitLocks /\ [][NextLocks]_vars /\ FairLocks

(***************************************************************************)
(* Properties of the locks and of the reaper (SpecLocks, SpecLocksFair)    *)
(***************************************************************************)
Buffered(id) ==
    Cardinality({k \in DOMAIN completed_sessions : completed_sessions[k].id = id})

\* C31: the reaper loses no completed session: every session that was pushed to
\* the completed buffer is still in the buffer or has been passed to the upsert,
\* whatever the interleaving of track_generation with the read, the inserts and
\* the clear of a tick
NoCompletedSessionLost ==
    \A id \in Sessions : pushed[id] <= offered[id] + Buffered(id)

\* C39: the clear of a tick empties the buffer, so that every session the tick
\* read is removed whether or not its upsert succeeded; a session is passed to
\* the upsert at most once, and each one passed is recorded to telemetry, the
\* failed ones included
ClearEmptiesBuffer ==
    reaper.pc = "write" /\ reaper'.pc = "idle" => completed_sessions' = <<>>

ReadSessionsRemovedAndRecorded ==
    /\ [][ClearEmptiesBuffer]_vars
    /\ [](\A id \in Sessions : offered[id] <= pushed[id] /\ recorded[id] = offered[id])

\* a tick has cleared a session whose upsert failed, and a later tick has read
\* an empty buffer
FailedSessionNotOfferedAgain ==
    /\ offered["s1"] = 1
    /\ stored["s1"] = 0
    /\ recorded["s1"] = 1
    /\ completed_sessions = <<>>
    /\ reaper.pc = "clear"

\* C33: no task holds the guard of the partial map while it waits for or holds
\* the guard of the completed buffer, and every task that requests a lock
\* eventually gets it
NoGuardAcrossLocks ==
    \A t \in 0..MaxTasks :
        Holds("active_sessions", t) =>
            ~ (Waits("completed_sessions", t) \/ Holds("completed_sessions", t))

LockOrderAndProgress ==
    /\ []NoGuardAcrossLocks
    /\ \A l \in LockNames : \A t \in 0..MaxTasks : Waits(l, t) ~> Holds(l, t)

\* a task waits for the completed buffer, which the reaper holds, while another
\* task holds the partial map
WriterWaitsBehindReaper ==
    \E i \in DOMAIN tasks :
        /\ Waits("completed_sessions", i)
        /\ Holds("completed_sessions", Reaper)
        /\ \E j \in DOMAIN tasks : j # i /\ Holds("active_sessions", j)

(***************************************************************************)
(* The process gauges of the scrape exporter (telemetry/prometheus.rs) in  *)
(* the poll tick of gpm-core.  process_count is the GaugeVec of the        *)
(* exporter: a series exists for the label values that were set once.      *)
(***************************************************************************)
\* processes the classifier can return in one tick
ClassifiedLists ==
    SeqsUpTo({[category |-> c, load |-> [gpu_utilization |-> 10, gpu_memory_mb |-> 4]] :
                 c \in WorkloadCategories}, MaxEvents)

CountOf(processes, category) ==
    Cardinality({k \in DOMAIN processes : processes[k].category = category})

\* prometheus.rs:159-172  update_process_metrics: category_counts has an entry
\* for each category of the slice, and the gauge is set for each entry
update_process_metrics(gauges, processes) ==
    LET category_counts ==
            [c \in {processes[k].category : k \in DOMAIN processes} |-> CountOf(processes, c)]
    IN [c \in DOMAIN gauges \cup DOMAIN category_counts |->
            IF c \in DOMAIN category_counts THEN category_counts[c] ELSE gauges[c]]

\* the rows of the first n processes, appended to the table
RECURSIVE InsertedEvents(_, _, _)
InsertedEvents(table, processes, n) ==
    IF n = 0 THEN table
    ELSE Append(InsertedEvents(table, processes, n - 1),
                ProcessEvent(mtClock, processes[n].category, processes[n].load))

\* service.rs:219-242  the poll tick from the classification on: the events are
\* inserted one by one and the first failure returns with `?`; past the loop
\* the exporter takes the processes.  failed is the position of the insert
\* that fails, 0 when none does.
collect_and_store_metrics_static(processes, failed) ==
    /\ Len(process_events) + Len(processes) <= MaxEvents
    /\ classified_processes' = processes
    /\ process_events' = InsertedEvents(process_events, processes,
                                        IF failed = 0 THEN Len(processes) ELSE failed - 1)
    /\ process_count' = IF failed = 0 THEN update_process_metrics(process_count, processes)
                        ELSE process_count
    /\ UNCHANGED <<mtClock, gpu_metrics, archive, mtEnabled, mt, mtSelected, mtDeleted>>
    /\ UNCHANGED <<weekly_summaries, trackerVars, svVars, fnVars>>
    /\ UNCHANGED <<offered, recorded, locks>>

InitMetrics == InitSummary

NextMetrics ==
    \E processes \in ClassifiedLists : \E failed \in 0..Len(processes) :
        collect_and_store_metrics_static(processes, failed)

SpecMetrics == InitMetrics /\ [][NextMetrics]_vars

(***************************************************************************)
(* Properties of the process gauges (SpecMetrics)                          *)
(***************************************************************************)
\* what a scrape shows for a category; a category without a series counts as 0
Scraped(category) ==
    IF category \in DOMAIN process_count THEN process_count[category] ELSE 0

\* C38: after every poll tick that stored its events and for every workload
\* category the gauge gpm_process_count{category} is the number of classified
\* processes of that category in that tick, 0 for a category that has none now
TickStoredItsEvents ==
    Len(process_events') = Len(process_events) + Len(classified_processes')

====
